---------------------------- MODULE Spec2Model ----------------------------
(***************************************************************************)
(* A model of the protanki protocol stack: the streaming XOR cipher        *)
(* (protocol/src/crypto/xor.rs), the framer (protocol/src/connection.rs),  *)
(* the packet handler registry (client-utils/src/handler.rs), the session  *)
(* driver (protocol/src/session.rs) and the server's client                *)
(* (server/src/client.rs).                                                 *)
(***************************************************************************)
EXTENDS Integers, Sequences, FiniteSets, TLC

VARIABLES
    \* ---- cipher harness (two XOrCipher instances built from one seed) ----
    ct_sender,      \* XOrCipher of the side that encrypts
    ct_receiver,    \* XOrCipher of the opposite role, built from the same seed
    ct_plain,       \* the bytes handed to encrypt, in order
    ct_sent,        \* how many bytes of ct_plain have been encrypted
    ct_seed,        \* the key both ciphers were built from
    ct_cross,       \* the calls on the two lanes that carry no traffic: their
                    \* number, the bytes the sender has decrypted and the bytes
                    \* the receiver has encrypted
    ct_wire,        \* the ciphertext produced so far
    ct_out,         \* the bytes decrypt has returned so far
    \* ---- one connection, its socket and its peer ----
    conn,           \* the Connection (see ConnectionNew)
    stage,          \* "new", "handshake" (init_encryption awaits), "open", "failed",
                    \* "bulk" (not followed further), "session", "client", "idle",
                    \* "setup" (Client::new awaits), "rejected", "connect"
                    \* (connect_with_socket awaits), "refused"
    last,           \* what the last poll_next / init_encryption returned
    hs_key,         \* the seed of this connection (generate_key's result)
    peer_script,    \* history: the packets the peer sends, in order
    \* ---- one Session over the connection ----
    sess,           \* the Session, its handler registry and its task (see SessionNew)
    \* ---- one server-side Client over the connection ----
    client,         \* the Client (see ClientNew)
    \* ---- one value going through a codec ----
    codec,          \* the value, the bytes written and what was read back
    \* ---- the server, its clients and their tasks ----
    srv,            \* the Server, and the Mutex and the task of each Client
    \* ---- the task that polls a connection, and the socket's readiness ----
    live,           \* see LiveNew
    \* ---- the Tasks queue of one server-side Client ----
    tq              \* see TasksNew

cipherVars == <<ct_sender, ct_receiver, ct_plain, ct_sent, ct_seed, ct_cross, ct_wire, ct_out>>

connVars == <<conn, stage, last, hs_key, peer_script>>

sessVars == <<sess>>

clientVars == <<client>>

codecVars == <<codec>>

srvVars == <<srv>>

liveVars == <<live>>

taskVars == <<tq>>

vars == <<cipherVars, connVars, sessVars, clientVars, codecVars, srvVars, liveVars, taskVars>>

-----------------------------------------------------------------------------
(* Bounds of the model *)

\* longest plaintext of the cipher harness
MaxPlain == 3

\* byte values the harness draws plaintext from (all eight low-3-bit classes
\* matter for the offset update; these cover 0, 1, 6, 7 and a high byte)
ByteSample == {0, 1, 6, 87, 255}

\* seeds (Vec<u8> of length 4, as generate_key returns)
Keys == { <<1, 2, 3, 4>>, <<0, 0, 0, 0>>, <<255, 87, 16, 9>> }

\* tasks enqueued on one Tasks queue, and polls of the queue, at most
MaxTasks == 3
MaxTaskPolls == 3

\* calls on the lanes of the two ciphers that carry no traffic, at most
MaxCross == 2

\* bytes of a plaintext where both lanes of a cipher are used, at most
MaxLane == 2

\* the values of those bytes
LaneSample == {6, 87}

\* the buffers of those calls
CrossBuffers == { <<87>>, <<6, 1>> }

\* seeds of the connection model
ConnKeys == { <<1, 2, 3, 4>> }

\* frames the peer sends after the handshake, at most
MaxPeerFrames == 2

\* send_packet calls of the user of a connection, at most
MaxSends == 1

\* a socket read or write moves no byte, one of these numbers of bytes, or all
\* there is (5 splits the 8-byte header and the payloads of the model)
ChunkSizes == {5}

-----------------------------------------------------------------------------
(* u8 arithmetic *)

Bit(x, i) == (x \div (2 ^ i)) % 2

\* a ^ b on u8
Xor(a, b) ==
      ((Bit(a, 0) + Bit(b, 0)) % 2)
    + ((Bit(a, 1) + Bit(b, 1)) % 2) * 2
    + ((Bit(a, 2) + Bit(b, 2)) % 2) * 4
    + ((Bit(a, 3) + Bit(b, 3)) % 2) * 8
    + ((Bit(a, 4) + Bit(b, 4)) % 2) * 16
    + ((Bit(a, 5) + Bit(b, 5)) % 2) * 32
    + ((Bit(a, 6) + Bit(b, 6)) % 2) * 64
    + ((Bit(a, 7) + Bit(b, 7)) % 2) * 128

\* value & 0x7
And7(a) == a % 8

\* index << 3 on u8
Shl3(i) == (i * 8) % 256

RECURSIVE FoldXor(_, _)
\* key.iter().fold(acc, |acc, v| acc ^ *v)
FoldXor(acc, key) ==
    IF key = <<>> THEN acc ELSE FoldXor(Xor(acc, Head(key)), Tail(key))

-----------------------------------------------------------------------------
(* XOrCipher *)

\* an XOrCipher::new that gives both roles the keys of the server
XOrCipherNewBug(mode, key) ==
    [ mode |-> mode,
      decrypt_key |-> [i \in 1..8 |-> Xor(Xor(FoldXor(0, key), Shl3(i - 1)), 87)],
      decrypt_key_offset |-> 0,
      encrypt_key |-> [i \in 1..8 |-> Xor(FoldXor(0, key), Shl3(i - 1))],
      encrypt_key_offset |-> 0 ]

\* XOrCipher::new: the lane keys are indexed 0..7 in the code, 1..8 here
XOrCipherNew(mode, key) ==
    LET seed == FoldXor(0, key)
        ka == [i \in 1..8 |-> Xor(seed, Shl3(i - 1))]
        kb == [i \in 1..8 |-> Xor(Xor(seed, Shl3(i - 1)), 87)]
    IN  [ mode |-> mode,
          decrypt_key |-> IF mode = "Server" THEN kb ELSE ka,
          decrypt_key_offset |-> 0,
          encrypt_key |-> IF mode = "Server" THEN ka ELSE kb,
          encrypt_key_offset |-> 0 ]

\* an encrypt loop that steps the offset of the decrypt lane as well
EncryptByteSharedBug(c, value) ==
    [ c |-> [c EXCEPT !.encrypt_key[c.encrypt_key_offset + 1] = value,
                      !.encrypt_key_offset = Xor(@, And7(value)),
                      !.decrypt_key_offset = Xor(@, And7(value))],
      b |-> Xor(value, c.encrypt_key[c.encrypt_key_offset + 1]) ]

\* one iteration of the encrypt loop: the cipher after it, and the byte written
EncryptByte(c, value) ==
    [ c |-> [c EXCEPT !.encrypt_key[c.encrypt_key_offset + 1] = value,
                      !.encrypt_key_offset = Xor(@, And7(value))],
      b |-> Xor(value, c.encrypt_key[c.encrypt_key_offset + 1]) ]

\* one iteration of the decrypt loop
DecryptByteBug(c, value) ==
    LET plain == Xor(value, c.decrypt_key[c.decrypt_key_offset + 1])
    IN  [ c |-> [c EXCEPT !.decrypt_key[c.decrypt_key_offset + 1] = value,
                          !.decrypt_key_offset = Xor(@, And7(plain))],
          b |-> plain ]

DecryptByte(c, value) ==
    LET plain == Xor(value, c.decrypt_key[c.decrypt_key_offset + 1])
    IN  [ c |-> [c EXCEPT !.decrypt_key[c.decrypt_key_offset + 1] = plain,
                          !.decrypt_key_offset = Xor(@, And7(plain))],
          b |-> plain ]

RECURSIVE XOrEncrypt(_, _)
\* XOrCipher::encrypt over a buffer of byte values: [c: cipher, buf: bytes]
XOrEncrypt(c, buffer) ==
    IF buffer = <<>> THEN [c |-> c, buf |-> <<>>]
    ELSE LET one  == EncryptByte(c, Head(buffer))
             rest == XOrEncrypt(one.c, Tail(buffer))
         IN  [c |-> rest.c, buf |-> <<one.b>> \o rest.buf]

RECURSIVE XOrDecrypt(_, _)
\* XOrCipher::decrypt over a buffer of byte values
XOrDecrypt(c, buffer) ==
    IF buffer = <<>> THEN [c |-> c, buf |-> <<>>]
    ELSE LET one  == DecryptByte(c, Head(buffer))
             rest == XOrDecrypt(one.c, Tail(buffer))
         IN  [c |-> rest.c, buf |-> <<one.b>> \o rest.buf]

OtherMode(mode) == IF mode = "Server" THEN "Client" ELSE "Server"

-----------------------------------------------------------------------------
(* Wire helpers *)

\* cursor.write_u32::<BigEndian>(n as u32); the lengths and ids of the model
\* are below 2^31, where the cast changes nothing
U32BE(n) ==
    << (n \div 16777216) % 256, (n \div 65536) % 256, (n \div 256) % 256, n % 256 >>

\* reader.read_u32::<BigEndian>() over four byte values
BE32(b) == b[1] * 16777216 + b[2] * 65536 + b[3] * 256 + b[4]

Min(a, b) == IF a <= b THEN a ELSE b

\* the byte values of a buffer of tagged bytes
Vals(buf) == [i \in 1..Len(buf) |-> buf[i].v]

\* bytes of frame number fr, starting at offset k0 of the frame; every byte
\* carries how often it went through an XOR encrypt lane and a decrypt lane
Tag(vals, fr, k0) ==
    [i \in 1..Len(vals) |-> [v |-> vals[i], fr |-> fr, k |-> k0 + i - 1, enc |-> 0, dec |-> 0]]

\* buffer[from..] of a Vec, 0-based
From(buf, from) == SubSeq(buf, from + 1, Len(buf))

-----------------------------------------------------------------------------
(* Packets. The generated catalog is not part of the sources; the model     *)
(* keeps five of its messages, with the codecs of codec/basics.rs, and     *)
(* UnknownPacket.                                                          *)

IdInitializeEncryption == 1
IdEncryptionInitialized == 2
IdMeasurePing == 3
IdMeasurePong == 4
IdAlertShow == 5

PktInitializeEncryption(key) == [id |-> IdInitializeEncryption, body |-> key, unknown |-> FALSE]
PktEncryptionInitialized(lang) == [id |-> IdEncryptionInitialized, body |-> lang, unknown |-> FALSE]
PktMeasurePing == [id |-> IdMeasurePing, body |-> <<>>, unknown |-> FALSE]
PktMeasurePong == [id |-> IdMeasurePong, body |-> <<>>, unknown |-> FALSE]
\* s2c::AlertShow{text}
PktAlertShow(text) == [id |-> IdAlertShow, body |-> text, unknown |-> FALSE]
\* UnknownPacket::new(direction, packet_id, payload)
PktUnknown(id, payload) == [id |-> id, body |-> payload, unknown |-> TRUE]

\* Packet::encode: the payload bytes (Vec<u8>, String, no field; UnknownPacket
\* writes its payload as it is)
PacketEncode(p) ==
    IF p.unknown THEN p.body
    ELSE IF p.id = IdInitializeEncryption THEN U32BE(Len(p.body)) \o p.body
    ELSE IF p.id \in {IdEncryptionInitialized, IdAlertShow}
         THEN (IF p.body = <<>> THEN <<1>> ELSE <<0>> \o U32BE(Len(p.body)) \o p.body)
    ELSE <<>>

\* register_all_packets: a server decodes c2s packets, a client s2c packets
RegisteredIds(is_server) ==
    IF is_server THEN {IdEncryptionInitialized, IdMeasurePong}
    ELSE {IdInitializeEncryption, IdMeasurePing, IdAlertShow}

\* Vec<u8>::decode over the payload
DecodeVecU8(id, payload) ==
    IF Len(payload) < 4 THEN [ok |-> FALSE, err |-> "IOError"]
    ELSE LET size == BE32(payload)
         IN  IF Len(payload) < 4 + size THEN [ok |-> FALSE, err |-> "IOError"]
             ELSE [ok |-> TRUE, used |-> 4 + size,
                   pkt |-> [id |-> id, body |-> SubSeq(payload, 5, 4 + size), unknown |-> FALSE]]

\* String::decode over the payload (the model's strings are ASCII: a byte
\* of 128 or more stands for an invalid UTF-8 sequence)
DecodeString(id, payload) ==
    IF Len(payload) < 1 THEN [ok |-> FALSE, err |-> "IOError"]
    ELSE IF payload[1] > 0
         THEN [ok |-> TRUE, used |-> 1, pkt |-> [id |-> id, body |-> <<>>, unknown |-> FALSE]]
    ELSE IF Len(payload) < 5 THEN [ok |-> FALSE, err |-> "IOError"]
    ELSE LET length == BE32(From(payload, 1))
         IN  IF Len(payload) < 5 + length THEN [ok |-> FALSE, err |-> "IOError"]
             ELSE LET bytes == SubSeq(payload, 6, 5 + length)
                  IN  IF \E i \in 1..Len(bytes) : bytes[i] >= 128
                      THEN [ok |-> FALSE, err |-> "CodecUtf8DecodeError"]
                      ELSE [ok |-> TRUE, used |-> 5 + length,
                            pkt |-> [id |-> id, body |-> bytes, unknown |-> FALSE]]

\* packet_id as i32
AsI32(n) == IF n > 2147483647 THEN n - 2147483647 - 2147483647 - 2 ELSE n

\* a decode that gives an unknown packet no payload
RegistryDecodeBug(is_server, decode_as_unknown, packet_id, payload) ==
    IF packet_id \notin RegisteredIds(is_server)
    THEN IF decode_as_unknown
         THEN [ok |-> TRUE, used |-> 0, pkt |-> PktUnknown(packet_id, <<>>)]
         ELSE [ok |-> FALSE, err |-> "PacketUnknownId", id |-> AsI32(packet_id)]
    ELSE IF packet_id = IdInitializeEncryption THEN DecodeVecU8(packet_id, payload)
    ELSE IF packet_id \in {IdEncryptionInitialized, IdAlertShow}
    THEN DecodeString(packet_id, payload)
    ELSE [ok |-> TRUE, used |-> 0, pkt |-> [id |-> packet_id, body |-> <<>>, unknown |-> FALSE]]

\* PacketRegistry::decode over the payload slice of one frame:
\* [ok, pkt, used] or [ok, err], with the id PacketUnknownId carries
RegistryDecode(is_server, decode_as_unknown, packet_id, payload) ==
    IF packet_id \notin RegisteredIds(is_server)
    THEN IF decode_as_unknown
         THEN [ok |-> TRUE, used |-> Len(payload), pkt |-> PktUnknown(packet_id, payload)]
         ELSE [ok |-> FALSE, err |-> "PacketUnknownId", id |-> AsI32(packet_id)]
    ELSE IF packet_id = IdInitializeEncryption THEN DecodeVecU8(packet_id, payload)
    ELSE IF packet_id \in {IdEncryptionInitialized, IdAlertShow}
    THEN DecodeString(packet_id, payload)
    ELSE [ok |-> TRUE, used |-> 0, pkt |-> [id |-> packet_id, body |-> <<>>, unknown |-> FALSE]]

-----------------------------------------------------------------------------
(* The codecs of codec/basics.rs, codec/primitives.rs and codec/enums.rs.  *)
(* A writer is the sequence of the bytes written; a reader is the sequence *)
(* of the bytes left. encode gives [ok, out] or [ok, err, out], decode     *)
(* gives [ok, val, used] or [ok, err].                                     *)

\* an encoder that takes 4194304 for a three-byte length
LengthEncodeBug(target) ==
    IF target < 128 THEN [ok |-> TRUE, out |-> <<target>>]
    ELSE IF target < 16384
    THEN LET encoded == (target % 16384) + 32768
         IN  [ok |-> TRUE, out |-> <<(encoded \div 256) % 256, encoded % 256>>]
    ELSE LET encoded == (target % 4194304) + 12582912
         IN  [ok |-> TRUE,
              out |-> <<(encoded \div 65536) % 256, (encoded \div 256) % 256, encoded % 256>>]

\* Length::encode. target & 16383 is target % 16384, (encoded & 65280) >> 8
\* is (encoded \div 256) % 256; the error leaves before any write
LengthEncode(target) ==
    IF target < 128 THEN [ok |-> TRUE, out |-> <<target>>]
    ELSE IF target < 16384
    THEN LET encoded == (target % 16384) + 32768
         IN  [ok |-> TRUE, out |-> <<(encoded \div 256) % 256, encoded % 256>>]
    ELSE IF target < 4194304
    THEN LET encoded == (target % 4194304) + 12582912
         IN  [ok |-> TRUE,
              out |-> <<(encoded \div 65536) % 256, (encoded \div 256) % 256, encoded % 256>>]
    ELSE [ok |-> FALSE, err |-> "CodecVarIntTooLarge", out |-> <<>>]

\* Length::decode. v0 & 128 is bit 7 of v0, v1 & 64 is bit 6 of v1; the
\* shifts are on usize and lose nothing
LengthDecode(reader) ==
    IF Len(reader) < 1 THEN [ok |-> FALSE, err |-> "IOError"]
    ELSE LET v0 == reader[1]
         IN  IF Bit(v0, 7) = 0 THEN [ok |-> TRUE, val |-> v0, used |-> 1]
             ELSE IF Len(reader) < 2 THEN [ok |-> FALSE, err |-> "IOError"]
             ELSE LET v1 == reader[2]
                  IN  IF Bit(v1, 6) = 0
                      THEN [ok |-> TRUE, val |-> v0 * 256 + v1, used |-> 2]
                      ELSE IF Len(reader) < 3 THEN [ok |-> FALSE, err |-> "IOError"]
                      ELSE [ok |-> TRUE, val |-> v0 * 65536 + v1 * 256 + reader[3],
                            used |-> 3]

\* the UTF-8 bytes of one char (a Unicode scalar value)
Utf8OfChar(c) ==
    IF c < 128 THEN <<c>>
    ELSE IF c < 2048 THEN <<192 + (c \div 64), 128 + (c % 64)>>
    ELSE IF c < 65536 THEN <<224 + (c \div 4096), 128 + ((c \div 64) % 64), 128 + (c % 64)>>
    ELSE <<240 + (c \div 262144), 128 + ((c \div 4096) % 64), 128 + ((c \div 64) % 64),
           128 + (c % 64)>>

\* String::as_bytes: a String is the sequence of its chars
RECURSIVE AsBytes(_)
AsBytes(s) == IF s = <<>> THEN <<>> ELSE Utf8OfChar(Head(s)) \o AsBytes(Tail(s))

\* a continuation byte of a UTF-8 sequence, within lo..hi
Utf8Cont(buffer, i, lo, hi) == Len(buffer) >= i /\ buffer[i] >= lo /\ buffer[i] <= hi

\* String::from_utf8(buffer): the chars, or no String when the bytes are not
\* well-formed UTF-8 (overlong forms, surrogates and values above 0x10FFFF
\* are not)
RECURSIVE FromUtf8(_)
FromUtf8(buffer) ==
    IF buffer = <<>> THEN [ok |-> TRUE, val |-> <<>>]
    ELSE LET b0 == buffer[1]
             width == IF b0 < 128 THEN 1
                      ELSE IF b0 >= 194 /\ b0 <= 223 THEN 2
                      ELSE IF b0 >= 224 /\ b0 <= 239 THEN 3
                      ELSE IF b0 >= 240 /\ b0 <= 244 THEN 4
                      ELSE 0
             formed ==
                 CASE width = 1 -> TRUE
                   [] width = 2 -> Utf8Cont(buffer, 2, 128, 191)
                   [] width = 3 ->
                        /\ Utf8Cont(buffer, 2, IF b0 = 224 THEN 160 ELSE 128,
                                               IF b0 = 237 THEN 159 ELSE 191)
                        /\ Utf8Cont(buffer, 3, 128, 191)
                   [] width = 4 ->
                        /\ Utf8Cont(buffer, 2, IF b0 = 240 THEN 144 ELSE 128,
                                               IF b0 = 244 THEN 143 ELSE 191)
                        /\ Utf8Cont(buffer, 3, 128, 191)
                        /\ Utf8Cont(buffer, 4, 128, 191)
                   [] OTHER -> FALSE
         IN  IF ~formed THEN [ok |-> FALSE]
             ELSE LET char ==
                          CASE width = 1 -> b0
                            [] width = 2 -> (b0 - 192) * 64 + (buffer[2] - 128)
                            [] width = 3 -> (b0 - 224) * 4096 + (buffer[2] - 128) * 64
                                                + (buffer[3] - 128)
                            [] OTHER -> (b0 - 240) * 262144 + (buffer[2] - 128) * 4096
                                            + (buffer[3] - 128) * 64 + (buffer[4] - 128)
                      rest == FromUtf8(From(buffer, width))
                  IN  IF rest.ok THEN [ok |-> TRUE, val |-> <<char>> \o rest.val]
                      ELSE [ok |-> FALSE]

\* an encoder that writes the number of chars where the byte length belongs
StringEncodeBug(s) ==
    IF s = <<>> THEN [ok |-> TRUE, out |-> <<1>>]
    ELSE [ok |-> TRUE, out |-> <<0>> \o U32BE(Len(s)) \o AsBytes(s)]

\* String::encode: true.encode for the empty string; else false, the byte
\* length as u32 and the bytes
StringEncode(s) ==
    IF s = <<>> THEN [ok |-> TRUE, out |-> <<1>>]
    ELSE LET bytes == AsBytes(s)
         IN  [ok |-> TRUE, out |-> <<0>> \o U32BE(Len(bytes)) \o bytes]

\* String::decode: bool::decode takes every byte above 0 for true
StringDecode(reader) ==
    IF Len(reader) < 1 THEN [ok |-> FALSE, err |-> "IOError"]
    ELSE IF reader[1] > 0 THEN [ok |-> TRUE, val |-> <<>>, used |-> 1]
    ELSE IF Len(reader) < 5 THEN [ok |-> FALSE, err |-> "IOError"]
    ELSE LET length == BE32(From(reader, 1))
         IN  IF Len(reader) < 5 + length THEN [ok |-> FALSE, err |-> "IOError"]
             ELSE LET result == FromUtf8(SubSeq(reader, 6, 5 + length))
                  IN  IF result.ok
                      THEN [ok |-> TRUE, val |-> result.val, used |-> 5 + length]
                      ELSE [ok |-> FALSE, err |-> "CodecUtf8DecodeError"]

\* writer.write_i32::<BigEndian>(n): two's complement on 32 bits
I32BE(n) ==
    IF n >= 0 THEN U32BE(n)
    ELSE LET m == n + 2147483647 + 1
         IN  <<128 + (m \div 16777216), (m \div 65536) % 256, (m \div 256) % 256, m % 256>>

\* reader.read_i32::<BigEndian>() over four byte values
ReadI32(b) ==
    IF b[1] < 128 THEN BE32(b)
    ELSE ((b[1] - 128) * 16777216 + b[2] * 65536 + b[3] * 256 + b[4]) - 2147483647 - 1

\* codec_enum!(CaptchaLocation : i32 {...}): the variants, by ordinal + 1;
\* Unknown = -1 is the variant the macro adds
CaptchaLocation ==
    <<"LoginForm", "RegisterForm", "ClientStartup", "RestorePasswordForm",
      "EmailChangeHash", "AccountSettingsForm">>

\* an encoder that sends the sentinel as its ordinal
EnumEncodeBug(variant) ==
    IF variant = "Unknown" THEN [ok |-> TRUE, out |-> I32BE(-1)]
    ELSE LET code == CHOOSE i \in DOMAIN CaptchaLocation : CaptchaLocation[i] = variant
         IN  [ok |-> TRUE, out |-> I32BE(code - 1)]

\* the encode of codec_enum: the match gives the ordinal, Unknown returns
\* the error before code.encode(writer)
EnumEncode(variant) ==
    IF variant = "Unknown" THEN [ok |-> FALSE, err |-> "EnumUnknown", out |-> <<>>]
    ELSE LET code == CHOOSE i \in DOMAIN CaptchaLocation : CaptchaLocation[i] = variant
         IN  [ok |-> TRUE, out |-> I32BE(code - 1)]

\* the decode of codec_enum: the match has no arm for -1; the error carries
\* the ordinal (as u64) and the type's name, which the model leaves out
EnumDecode(reader) ==
    IF Len(reader) < 4 THEN [ok |-> FALSE, err |-> "IOError"]
    ELSE LET code == ReadI32(reader)
         IN  IF code >= 0 /\ code < Len(CaptchaLocation)
             THEN [ok |-> TRUE, val |-> CaptchaLocation[code + 1], used |-> 4]
             ELSE [ok |-> FALSE, err |-> "EnumInvalidOrdinal"]

\* T::encode and T::decode by the type of the value
CodecEncode(type, value) ==
    CASE type = "Length" -> LengthEncode(value)
      [] type = "String" -> StringEncode(value)
      [] OTHER -> EnumEncode(value)

CodecDecode(type, reader) ==
    CASE type = "Length" -> LengthDecode(reader)
      [] type = "String" -> StringDecode(reader)
      [] OTHER -> EnumDecode(reader)

-----------------------------------------------------------------------------
(* Cipher trait objects: PlainCipher does nothing, XOrCipher is the lane   *)

PlainCipherNew(mode) == [kind |-> "plain", mode |-> mode]
XOrContext(mode, key) == [kind |-> "xor", mode |-> mode, x |-> XOrCipherNew(mode, key)]

\* the context and the region after the XOR lane returned r; each byte of
\* the region has passed the encrypt lane once more
CipherEncrypted(ctx, region, r) ==
    [ctx |-> [ctx EXCEPT !.x = r.c],
     buf |-> [i \in 1..Len(region) |-> [region[i] EXCEPT !.v = r.buf[i], !.enc = @ + 1]]]

\* the same for the decrypt lane
CipherDecrypted(ctx, region, r) ==
    [ctx |-> [ctx EXCEPT !.x = r.c],
     buf |-> [i \in 1..Len(region) |-> [region[i] EXCEPT !.v = r.buf[i], !.dec = @ + 1]]]

\* crypt_context.encrypt(&mut region): [ctx, buf]
CipherEncrypt(ctx, region) ==
    IF ctx.kind = "plain" THEN [ctx |-> ctx, buf |-> region]
    ELSE CipherEncrypted(ctx, region, XOrEncrypt(ctx.x, Vals(region)))

\* crypt_context.decrypt(&mut region): [ctx, buf]
CipherDecrypt(ctx, region) ==
    IF ctx.kind = "plain" THEN [ctx |-> ctx, buf |-> region]
    ELSE CipherDecrypted(ctx, region, XOrDecrypt(ctx.x, Vals(region)))

-----------------------------------------------------------------------------
(* Connection (protocol/src/connection.rs). A connection is a record:      *)
(*   is_server, crypt_context, disconnected, decode_as_unknown,            *)
(*   recv_buffer  the first recv_buffer_index bytes of the Vec recv_buffer *)
(*   recv_len     recv_buffer.len()                                        *)
(*   send_buffer, send_waker (TRUE: Some(waker))                           *)
(*   socket       [rx: the bytes the peer sent and poll_recv has not       *)
(*                 returned yet, tx: the bytes poll_send accepted]         *)
(*   h_sent       history: per send_packet, the packet, the bytes appended *)
(*                to send_buffer, and whether the connection was           *)
(*                disconnected at the call                                 *)
(*   h_parsed     history: per frame try_parse_read_buffer decoded, its    *)
(*                frame number, payload as decoded, and the packet         *)
(*   h_errs       history: the errors poll_next yielded (the first two)    *)
(*   h_empty_recv history: some poll_recv was handed an empty slice        *)

HeaderLen == 8
PacketCap == 67108864
RecvReserve == 1024

Pending == [kind |-> "Pending"]
ReadyItem(p) == [kind |-> "Item", pkt |-> p]
ReadyErr(e) == [kind |-> "Err", err |-> e]
ReadyNone == [kind |-> "None"]
\* the error a failed decode returned
ReadyErrOf(dec) ==
    IF dec.err = "PacketUnknownId" THEN [kind |-> "Err", err |-> dec.err, id |-> dec.id]
    ELSE ReadyErr(dec.err)

\* Connection::new around a socket whose peer will send the bytes rx
ConnectionNew(is_server, rx) ==
    [ is_server |-> is_server,
      crypt_context |-> PlainCipherNew(IF is_server THEN "Server" ELSE "Client"),
      disconnected |-> FALSE,
      decode_as_unknown |-> FALSE,
      recv_buffer |-> <<>>,
      recv_len |-> 0,
      send_buffer |-> <<>>,
      send_waker |-> FALSE,
      socket |-> [rx |-> rx, tx |-> <<>>],
      h_sent |-> <<>>,
      h_parsed |-> <<>>,
      h_errs |-> <<>>,
      h_empty_recv |-> FALSE ]

\* the value send_packet patches into offset 0
LengthFieldBug(packet_length) == packet_length - HeaderLen

LengthField(packet_length) == packet_length

\* send_packet, its last lines: the frame is appended to send_buffer and
\* the writer is woken
SendPacketAppend(c, p, header, e) ==
    [c EXCEPT !.crypt_context = e.ctx,
              !.send_buffer = @ \o header \o e.buf,
              !.send_waker = FALSE,
              !.h_sent = Append(@, [pkt |-> p, n |-> Len(header) + Len(e.buf),
                                    dead |-> c.disconnected])]

\* send_packet from the patched buffer on: encrypt(&mut buffer[8..])
SendPacketPatched(c, p, buffer) ==
    SendPacketAppend(c, p, SubSeq(buffer, 1, 8),
                     CipherEncrypt(c.crypt_context, From(buffer, 8)))

\* send_packet from the encoded buffer on: the length is patched at offset 0
SendPacketEncoded(c, p, raw) ==
    SendPacketPatched(c, p, Tag(U32BE(LengthField(Len(raw))) \o From(raw, 4),
                                Len(c.h_sent) + 1, 0))

\* Connection::send_packet (encode and encrypt cannot fail for the model's
\* packets, so the result is always Ok(()))
SendPacket(c, p) ==
    SendPacketEncoded(c, p, U32BE(0) \o U32BE(p.id) \o PacketEncode(p))

\* send_packet of a packet whose encode writes payload_size bytes, more
\* than the model keeps: packet_length is patched into the header and the
\* frame is appended, whatever its length, and the result is Ok(()). Of the
\* frame the model keeps the header only.
SendPacketBulk(c, p, payload_size) ==
    [c EXCEPT !.send_buffer = @ \o Tag(U32BE(LengthField(HeaderLen + payload_size))
                                          \o U32BE(p.id), Len(c.h_sent) + 1, 0),
              !.send_waker = FALSE,
              !.h_sent = Append(@, [pkt |-> p, n |-> HeaderLen + payload_size,
                                    dead |-> c.disconnected])]

\* init_encryption, server branch, with the key generate_key returned
ServerInitEncryptionBug(c, key) ==
    SendPacket([c EXCEPT !.crypt_context = XOrContext("Server", key)],
               PktInitializeEncryption(key))

ServerInitEncryption(c, key) ==
    [SendPacket(c, PktInitializeEncryption(key))
        EXCEPT !.crypt_context = XOrContext("Server", key)]

\* how far the framer advances after a decoded frame
AdvanceBug(packet_length, used) == HeaderLen + used

Advance(packet_length, used) == packet_length

\* try_parse_read_buffer after decode: the error, or the packet with the
\* buffer advanced
TryParseDecoded(c, packet_length, d, dec) ==
    IF ~dec.ok
    THEN [c |-> [c EXCEPT !.crypt_context = d.ctx,
                          !.recv_buffer = SubSeq(c.recv_buffer, 1, 8) \o d.buf
                                              \o From(c.recv_buffer, packet_length)],
          res |-> ReadyErrOf(dec)]
    ELSE [c |-> [c EXCEPT !.crypt_context = d.ctx,
                          !.recv_buffer = From(SubSeq(c.recv_buffer, 1, 8) \o d.buf
                                                   \o From(c.recv_buffer, packet_length),
                                               Advance(packet_length, dec.used)),
                          !.h_parsed = Append(@, [fr |-> c.recv_buffer[1].fr,
                                                  first |-> c.recv_buffer[1].k,
                                                  length |-> packet_length,
                                                  payload |-> d.buf,
                                                  used |-> dec.used,
                                                  pkt |-> dec.pkt])],
          res |-> ReadyItem(dec.pkt)]

\* try_parse_read_buffer with the payload decrypted in place: decode
TryParseDecrypted(c, packet_length, packet_id, d) ==
    TryParseDecoded(c, packet_length, d,
                    RegistryDecode(c.is_server, c.decode_as_unknown, packet_id, Vals(d.buf)))

\* a framer that accepts a declared length of 7
TryParseFrameSmallBug(c, packet_length, packet_id) ==
    IF packet_length > PacketCap THEN [c |-> c, res |-> ReadyErr("PacketTooLarge")]
    ELSE IF packet_length < 7 THEN [c |-> c, res |-> ReadyErr("PacketTooSmall")]
    ELSE IF Len(c.recv_buffer) < packet_length
    THEN [c |-> [c EXCEPT !.recv_len = IF @ < packet_length THEN packet_length ELSE @],
          res |-> Pending]
    ELSE TryParseDecrypted(c, packet_length, packet_id,
                           CipherDecrypt(c.crypt_context, SubSeq(c.recv_buffer, 9, packet_length)))

\* a framer without the upper bound on the declared length
TryParseFrameLargeBug(c, packet_length, packet_id) ==
    IF packet_length < 8 THEN [c |-> c, res |-> ReadyErr("PacketTooSmall")]
    ELSE IF Len(c.recv_buffer) < packet_length
    THEN [c |-> [c EXCEPT !.recv_len = IF @ < packet_length THEN packet_length ELSE @],
          res |-> Pending]
    ELSE TryParseDecrypted(c, packet_length, packet_id,
                           CipherDecrypt(c.crypt_context, SubSeq(c.recv_buffer, 9, packet_length)))

\* try_parse_read_buffer with the header read
TryParseFrame(c, packet_length, packet_id) ==
    IF packet_length > PacketCap THEN [c |-> c, res |-> ReadyErr("PacketTooLarge")]
    ELSE IF packet_length < 8 THEN [c |-> c, res |-> ReadyErr("PacketTooSmall")]
    ELSE IF Len(c.recv_buffer) < packet_length
    THEN [c |-> [c EXCEPT !.recv_len = IF @ < packet_length THEN packet_length ELSE @],
          res |-> Pending]
    ELSE TryParseDecrypted(c, packet_length, packet_id,
                           CipherDecrypt(c.crypt_context, SubSeq(c.recv_buffer, 9, packet_length)))

\* try_parse_read_buffer: [c, res]
TryParseReadBuffer(c) ==
    IF Len(c.recv_buffer) < 8 THEN [c |-> c, res |-> Pending]
    ELSE TryParseFrame(c, BE32(Vals(SubSeq(c.recv_buffer, 1, 4))),
                          BE32(Vals(SubSeq(c.recv_buffer, 5, 8))))

RECURSIVE RecvLoop(_, _, _)
\* a read that stores the bytes at the start of the buffer, whatever the
\* buffer holds already
RecvReadBug(t, n, rflag) ==
    IF t.res.kind # "Pending" THEN t
    ELSE IF n = 0 /\ rflag = "pending" THEN [c |-> t.c, res |-> Pending]
    ELSE IF n = 0 /\ rflag = "err" THEN [c |-> t.c, res |-> ReadyErr("ReadError")]
    ELSE IF Min(n, t.c.recv_len - Len(t.c.recv_buffer)) = 0
         THEN [c |-> t.c, res |-> ReadyErr("Disconnected")]
    ELSE RecvLoop([t.c EXCEPT !.recv_buffer = SubSeq(t.c.socket.rx, 1,
                                      Min(n, t.c.recv_len - Len(t.c.recv_buffer))),
                              !.socket.rx = From(@, Min(n, t.c.recv_len - Len(t.c.recv_buffer)))],
                  n - Min(n, t.c.recv_len - Len(t.c.recv_buffer)), rflag)

\* the loop of poll_incoming after try_parse_read_buffer returned t; the
\* socket has n bytes to give and then answers rflag: "pending", "eof"
\* (Ok(0)) or "err". A read into an empty slice returns Ok(0) as well.
RecvRead(t, n, rflag) ==
    IF t.res.kind # "Pending" THEN t
    ELSE IF n = 0 /\ rflag = "pending" THEN [c |-> t.c, res |-> Pending]
    ELSE IF n = 0 /\ rflag = "err" THEN [c |-> t.c, res |-> ReadyErr("ReadError")]
    ELSE IF Min(n, t.c.recv_len - Len(t.c.recv_buffer)) = 0
         THEN [c |-> t.c, res |-> ReadyErr("Disconnected")]
    ELSE RecvLoop([t.c EXCEPT !.recv_buffer = @ \o SubSeq(t.c.socket.rx, 1,
                                      Min(n, t.c.recv_len - Len(t.c.recv_buffer))),
                              !.socket.rx = From(@, Min(n, t.c.recv_len - Len(t.c.recv_buffer)))],
                  n - Min(n, t.c.recv_len - Len(t.c.recv_buffer)), rflag)

\* history: after try_parse_read_buffer returned pending, poll_recv is
\* called with recv_buffer[recv_buffer_index..]
NoteRecv(t) ==
    IF t.res.kind = "Pending"
    THEN [t EXCEPT !.c.h_empty_recv = @ \/ t.c.recv_len = Len(t.c.recv_buffer)]
    ELSE t

\* the loop of poll_incoming
RecvLoop(c, n, rflag) == RecvRead(NoteRecv(TryParseReadBuffer(c)), n, rflag)

\* a poll_incoming that does not reserve room before it reads
PollIncomingBug(c, n, rflag) == RecvLoop(c, n, rflag)

\* poll_incoming
PollIncoming(c, n, rflag) ==
    RecvLoop(IF c.recv_len - Len(c.recv_buffer) < RecvReserve
             THEN [c EXCEPT !.recv_len = @ + RecvReserve] ELSE c,
             n, rflag)

\* poll_outgoing after a write of length bytes: copy_within(length.., 0)
\* and truncate(len - length)
CompactBug(send_buffer, length) == SubSeq(send_buffer, 1, Len(send_buffer) - length)

Compact(send_buffer, length) == From(send_buffer, length)

\* a poll_outgoing that does not store the waker of its caller
PollOutgoingBug(c, room, wfail) ==
    [c |-> [c EXCEPT !.socket.tx = @ \o SubSeq(c.send_buffer, 1, Min(room, Len(c.send_buffer))),
                     !.send_buffer = Compact(@, Min(room, Len(c.send_buffer)))],
     res |-> IF Min(room, Len(c.send_buffer)) < Len(c.send_buffer) /\ wfail
             THEN ReadyErr("WriteError") ELSE Pending]

\* poll_outgoing: the socket accepts room bytes now; a further poll_send
\* fails if wfail, and is pending otherwise
PollOutgoing(c, room, wfail) ==
    LET length == Min(room, Len(c.send_buffer))
    IN  [c |-> [c EXCEPT !.send_waker = TRUE,
                         !.socket.tx = @ \o SubSeq(c.send_buffer, 1, length),
                         !.send_buffer = Compact(@, length)],
         res |-> IF length < Len(c.send_buffer) /\ wfail
                 THEN ReadyErr("WriteError") ELSE Pending]

\* poll_io after poll_outgoing returned o
PollIoIncoming(o, n, rflag) ==
    IF o.res.kind # "Pending" THEN o ELSE PollIncoming(o.c, n, rflag)

\* poll_io
PollIo(c, room, wfail, n, rflag) ==
    PollIoIncoming(PollOutgoing(c, room, wfail), n, rflag)

\* poll_next after poll_io returned r
PollNextResult(r) ==
    IF r.res.kind = "Err"
    THEN [c |-> [r.c EXCEPT !.disconnected = TRUE,
                            !.h_errs = IF Len(@) < 2 THEN Append(@, r.res.err) ELSE @],
          res |-> r.res]
    ELSE r

\* a poll_next that does not look at the disconnected flag
PollNextBug(c, room, wfail, n, rflag) == PollNextResult(PollIo(c, room, wfail, n, rflag))

\* Stream::poll_next
PollNext(c, room, wfail, n, rflag) ==
    IF c.disconnected THEN [c |-> c, res |-> ReadyNone]
    ELSE PollNextResult(PollIo(c, room, wfail, n, rflag))

\* an init_encryption that installs the cipher of whatever packet it got
ClientInitEncryptionBug(c, res) ==
    IF res.kind = "Item" /\ res.pkt.id = IdInitializeEncryption /\ ~res.pkt.unknown
    THEN [c |-> [c EXCEPT !.crypt_context = XOrContext("Client", res.pkt.body)], res |-> "Ok"]
    ELSE IF res.kind = "Item"
    THEN [c |-> [c EXCEPT !.crypt_context = XOrContext("Client", res.pkt.body)],
          res |-> "UnexpectedPacket"]
    ELSE IF res.kind = "Err" THEN [c |-> c, res |-> res.err]
    ELSE [c |-> c, res |-> "ConnectionAborted"]

\* init_encryption, client branch, after self.next() returned res
ClientInitEncryption(c, res) ==
    IF res.kind = "Item" /\ res.pkt.id = IdInitializeEncryption /\ ~res.pkt.unknown
    THEN [c |-> [c EXCEPT !.crypt_context = XOrContext("Client", res.pkt.body)], res |-> "Ok"]
    ELSE IF res.kind = "Item" THEN [c |-> c, res |-> "UnexpectedPacket"]
    ELSE IF res.kind = "Err" THEN [c |-> c, res |-> res.err]
    ELSE [c |-> c, res |-> "ConnectionAborted"]

\* a Session as connect_with_socket builds it: an empty registry. The
\* fields after task are history:
\*   iterating  who holds the borrow of the handler map: "none", "handle", "poll"
\*   rx         the oneshot channel of the task: "none", "empty", a result
\*              ("Ok", "TaskErr"), "closed" (sender dropped unsent),
\*              "dropped" (receiver dropped)
\*   task       the TaskHandle: "none", "pending", "dropped", or what it resolved with
\*   want       the ids a map holds that every requested mutation reached
\*   fut        the future that borrows the session: "none", "task" (the
\*              TaskHandle of execute_task) or "match" (await_match)
\*   handler_id the local handler_id of the await_match future
\*   tlog       history of the TaskSimpleAction: its polls and the runs of
\*              its executor (both counted up to 2), the poll the executor
\*              first ran in, whether the matcher saw a packet before the
\*              executor ran, and the results the matcher submitted
\*   removed    the ids whose removal was requested
\*   dlog       per dispatch: frame, handlers at its start, handlers invoked,
\*              the handler that failed, ids registered / removed during it,
\*              and the frames the handlers sent
\*   ret        per return of handle / poll in the latest Session poll: the
\*              length of the deferred queue and whether the map equals want
\*   plog       per handler the registry polled in the latest Session poll:
\*              its id and what its poll returned
\*   woke       the latest Session poll woke its own waker
SessionNew ==
    [ disconnected |-> FALSE,
      handler |-> <<>>,
      handler_index |-> 0,
      pending_handler_updates |-> <<>>,
      iterating |-> "none",
      rx |-> "none",
      task |-> "none",
      fut |-> "none",
      handler_id |-> 0,
      tlog |-> [polls |-> 0, execs |-> 0, exec_at |-> 0, early |-> FALSE, results |-> 0],
      want |-> {},
      removed |-> {},
      dlog |-> <<>>,
      ret |-> <<>>,
      plog |-> <<>>,
      woke |-> FALSE ]

\* the session variable of a specification that has no session
IdleSessVars == sess = SessionNew

\* the Client as Client::new builds it, next to its connection: open, with
\* the ConnectionPing component, which has no ping in flight
\*   callbacks       the senders Closing holds
\*   send_timestamp  ConnectionPing::send_timestamp.is_some()
\* The fields after send_timestamp are history:
\*   completed       the callbacks do_connection_close has sent to
\*   closed_from     the state do_connection_close found
\*   unwritten       the length of the write buffer when it closed
\*   closing_tx      the bytes the socket had accepted when Closing began
\*   flush_futures   the futures disconnect(true) returned to the owner
\*                   that were not polled yet
\*   done_in         the connection states in which such a future completed
\*   done_unflushed  such a future completed with bytes in the write buffer
ClientSelf ==
    [ connection_state |-> "Open",
      callbacks |-> 0,
      send_timestamp |-> FALSE,
      completed |-> 0,
      closed_from |-> "none",
      unwritten |-> 0,
      closing_tx |-> 0,
      flush_futures |-> 0,
      done_in |-> {},
      done_unflushed |-> FALSE ]

\* the client variable of a specification that has no client
IdleClientVars == client = ClientSelf

IdleCodecVars ==
    codec = [type |-> "none", given |-> "none", input |-> <<>>, phase |-> "idle",
             wire |-> <<>>, enc |-> [ok |-> FALSE], dec |-> [ok |-> FALSE]]

MaxClients == 2

\* the client of register_client's shutdown branch, which its task owns
Orphan == 0

\* a Client as register_client finds it, and the task of the client
ServerClient ==
    [lock |-> "none", poisoned |-> FALSE, task |-> "none", state |-> "Open",
     authed |-> FALSE, in_poll |-> 0, in_call |-> 0]

\* Server::new behind main.rs' Arc<Mutex<Server>>; cl holds every Client
\* with its Mutex, holder is who has locked the Server, at the client whose
\* Mutex the holder has locked, todo what Server::shutdown has yet to visit
ServerNew ==
    [holder |-> "none", dead |-> FALSE, is_shutdown |-> FALSE, clients |-> {},
     client_id_index |-> 0, events |-> <<>>, at |-> -1, todo |-> {},
     cl |-> [id \in 0..MaxClients |-> ServerClient]]

IdleSrvVars == srv = ServerNew

\* the task of a connection: woken (the executor will poll it), wr_wait (the
\* socket holds its waker for writability), room (the bytes the socket
\* accepts now); idle_send is history: a send_packet outside of a poll found
\* the task asleep
LiveNew == [woken |-> FALSE, wr_wait |-> FALSE, room |-> 0, idle_send |-> FALSE]

IdleLiveVars == live = LiveNew

\* Tasks::new. A task is [id, ready, kind, callback]: ready says that its
\* future completes at the next poll, kind what its callback does, callback
\* that the Option still holds it. The fields after waker are history: the
\* polls of Tasks so far, the tasks enqueued so far, and per task the poll
\* it was enqueued in (0: outside of a poll), the poll that first polled
\* it, the poll its future completed in, the poll its callback ran in, the
\* runs of its callback and the polls of its future after it had completed
TasksNew ==
    [tasks |-> <<>>, new_tasks |-> <<>>, waker |-> FALSE,
     polls |-> 0, ids |-> 0, log |-> <<>>]

IdleTaskVars == tq = TasksNew

\* the connection variables of a specification that has no connection
IdleConnVars ==
    /\ conn = ConnectionNew(TRUE, <<>>)
    /\ stage = "idle"
    /\ last = Pending
    /\ hs_key = <<>>
    /\ peer_script = <<>>

-----------------------------------------------------------------------------
(* Cipher harness: one side encrypts a byte sequence in chunks, the other  *)
(* side decrypts the ciphertext in chunks of its own choosing.             *)

RECURSIVE SeqsUpTo(_, _)
SeqsUpTo(S, n) ==
    IF n = 0 THEN { <<>> }
    ELSE LET shorter == SeqsUpTo(S, n - 1)
         IN  shorter \cup { Append(s, x) : s \in shorter, x \in S }

InitCipherVars ==
    \E mode \in {"Server", "Client"}, key \in Keys :
        /\ ct_sender = XOrCipherNew(mode, key)
        /\ ct_receiver = XOrCipherNew(OtherMode(mode), key)
        /\ ct_plain \in SeqsUpTo(ByteSample, MaxPlain)
        /\ ct_sent = 0
        /\ ct_seed = key
        /\ ct_cross = [calls |-> 0, sender |-> <<>>, receiver |-> <<>>]
        /\ ct_wire = <<>>
        /\ ct_out = <<>>

\* one encrypt call on the next n bytes
CtEncrypt(n) ==
    /\ ct_sent + n <= Len(ct_plain)
    /\ LET r == XOrEncrypt(ct_sender, SubSeq(ct_plain, ct_sent + 1, ct_sent + n))
       IN  /\ ct_sender' = r.c
           /\ ct_wire' = ct_wire \o r.buf
    /\ ct_sent' = ct_sent + n
    /\ UNCHANGED <<ct_receiver, ct_plain, ct_seed, ct_cross, ct_out>>

\* one decrypt call on the next n bytes of ciphertext
CtDecrypt(n) ==
    /\ Len(ct_out) + n <= Len(ct_wire)
    /\ LET r == XOrDecrypt(ct_receiver,
                           SubSeq(ct_wire, Len(ct_out) + 1, Len(ct_out) + n))
       IN  /\ ct_receiver' = r.c
           /\ ct_out' = ct_out \o r.buf
    /\ UNCHANGED <<ct_sender, ct_plain, ct_sent, ct_seed, ct_cross, ct_wire>>

\* one decrypt call on the cipher that encrypts the traffic
CtSenderDecrypt(buffer) ==
    /\ ct_cross.calls < MaxCross
    /\ ct_sender' = XOrDecrypt(ct_sender, buffer).c
    /\ ct_cross' = [ct_cross EXCEPT !.calls = @ + 1, !.sender = @ \o buffer]
    /\ UNCHANGED <<ct_receiver, ct_plain, ct_sent, ct_seed, ct_wire, ct_out>>

\* one encrypt call on the cipher that decrypts the traffic
CtReceiverEncrypt(buffer) ==
    /\ ct_cross.calls < MaxCross
    /\ ct_receiver' = XOrEncrypt(ct_receiver, buffer).c
    /\ ct_cross' = [ct_cross EXCEPT !.calls = @ + 1, !.receiver = @ \o buffer]
    /\ UNCHANGED <<ct_sender, ct_plain, ct_sent, ct_seed, ct_wire, ct_out>>

IdleCipherVars ==
    /\ ct_sender = XOrCipherNew("Server", <<>>)
    /\ ct_receiver = XOrCipherNew("Client", <<>>)
    /\ ct_plain = <<>>
    /\ ct_sent = 0
    /\ ct_seed = <<>>
    /\ ct_cross = [calls |-> 0, sender |-> <<>>, receiver |-> <<>>]
    /\ ct_wire = <<>>
    /\ ct_out = <<>>

InitCipher == InitCipherVars /\ IdleConnVars /\ IdleSessVars /\ IdleClientVars /\ IdleCodecVars /\ IdleSrvVars /\ IdleLiveVars /\ IdleTaskVars

NextCipher ==
    \/ \E n \in 1..MaxPlain : CtEncrypt(n) /\ UNCHANGED <<connVars, sessVars, clientVars, codecVars, srvVars, liveVars, taskVars>>
    \/ \E n \in 1..MaxPlain : CtDecrypt(n) /\ UNCHANGED <<connVars, sessVars, clientVars, codecVars, srvVars, liveVars, taskVars>>

SpecCipher == InitCipher /\ [][NextCipher]_vars

\* two ciphers of one seed, each of them used in both directions
InitLanes ==
    /\ InitCipherVars /\ Len(ct_plain) <= MaxLane /\ \A i \in 1..Len(ct_plain) : ct_plain[i] \in LaneSample
    /\ IdleConnVars /\ IdleSessVars /\ IdleClientVars /\ IdleCodecVars /\ IdleSrvVars /\ IdleLiveVars /\ IdleTaskVars

NextLanes ==
    \/ \E n \in 1..MaxLane : CtEncrypt(n) /\ UNCHANGED <<connVars, sessVars, clientVars, codecVars, srvVars, liveVars, taskVars>>
    \/ \E n \in 1..MaxLane : CtDecrypt(n) /\ UNCHANGED <<connVars, sessVars, clientVars, codecVars, srvVars, liveVars, taskVars>>
    \/ \E buffer \in CrossBuffers : CtSenderDecrypt(buffer) /\ UNCHANGED <<connVars, sessVars, clientVars, codecVars, srvVars, liveVars, taskVars>>
    \/ \E buffer \in CrossBuffers : CtReceiverEncrypt(buffer) /\ UNCHANGED <<connVars, sessVars, clientVars, codecVars, srvVars, liveVars, taskVars>>

SpecLanes == InitLanes /\ [][NextLanes]_vars

-----------------------------------------------------------------------------
(* One connection and its peer *)

RECURSIVE SendAll(_, _)
SendAll(c, pkts) ==
    IF pkts = <<>> THEN c ELSE SendAll(SendPacket(c, Head(pkts)), Tail(pkts))

\* the byte stream of a peer that completes its side of the handshake and
\* sends the packets of script
PeerStream(is_server, key, script) ==
    LET peer == ConnectionNew(~is_server, <<>>)
    IN  IF is_server
        THEN SendAll([peer EXCEPT !.crypt_context = XOrContext("Client", key)], script).send_buffer
        ELSE SendAll(ServerInitEncryption(peer, key), script).send_buffer

\* what a peer may send: catalog packets, a frame whose payload is longer
\* than its decoder reads, and a frame with an id the receiver does not know
PeerPackets(is_server) ==
    IF is_server
    THEN { PktMeasurePong, PktEncryptionInitialized(<<>>), PktUnknown(IdMeasurePong, <<5, 6>>) }
    ELSE { PktMeasurePing, PktUnknown(IdMeasurePing, <<5, 6>>), PktUnknown(9, <<7>>) }

\* what the user of the connection sends
UserPackets(is_server) ==
    IF is_server THEN { PktMeasurePing, PktUnknown(9, <<7>>) }
    ELSE { PktMeasurePong, PktEncryptionInitialized(<<>>) }

HandshakeFrameLen(key) == 8 + 4 + Len(key)

\* a client peer can only send once it has the complete handshake frame
Avail(c) ==
    IF c.is_server /\ Len(c.socket.tx) < HandshakeFrameLen(hs_key) THEN 0
    ELSE Len(c.socket.rx)

ReadSizes(c) == { n \in {0} \cup ChunkSizes \cup {Avail(c)} : n <= Avail(c) }
WriteSizes(c) == {0} \cup ChunkSizes \cup {Len(c.send_buffer)}

\* what the socket does during one poll: it accepts room bytes, then a
\* further poll_send fails (wfail) or is pending; it returns n bytes, then a
\* further poll_recv is pending, fails, or reports the end of the stream
\* (only once the peer's bytes are all read). A failure is drawn for the
\* first call that can see it.
PollInputs(c) ==
    { [room |-> room, wfail |-> FALSE, n |-> n, rflag |-> "pending"] :
          room \in WriteSizes(c), n \in ReadSizes(c) }
    \cup { [room |-> room, wfail |-> TRUE, n |-> 0, rflag |-> "pending"] :
          room \in { r \in WriteSizes(c) : r < Len(c.send_buffer) } }
    \cup { [room |-> 0, wfail |-> FALSE, n |-> 0, rflag |-> "err"] }
    \cup { [room |-> 0, wfail |-> FALSE, n |-> 0, rflag |-> rflag] :
          rflag \in { f \in {"eof"} : Avail(c) = 0 } }

InitConnVars ==
    \E is_server \in BOOLEAN, key \in ConnKeys :
        /\ hs_key = key
        /\ peer_script \in SeqsUpTo(PeerPackets(is_server), MaxPeerFrames)
        /\ conn = ConnectionNew(is_server, PeerStream(is_server, key, peer_script))
        /\ stage = IF is_server THEN "new" ELSE "handshake"
        /\ last = Pending

\* the server's init_encryption
ConnServerInit ==
    /\ stage = "new"
    /\ conn' = ServerInitEncryption(conn, hs_key)
    /\ stage' = "open"
    /\ last' = [kind |-> "Init", res |-> "Ok"]
    /\ UNCHANGED <<hs_key, peer_script>>

\* init_encryption's next().await returned r, and init_encryption i
ConnClientInitResult(r, i) ==
    /\ IF r.res.kind = "Pending"
       THEN /\ conn' = r.c
            /\ UNCHANGED <<stage, last>>
       ELSE /\ conn' = i.c
            /\ stage' = IF i.res = "Ok" THEN "open" ELSE "failed"
            /\ last' = [kind |-> "Init", res |-> i.res]
    /\ UNCHANGED <<hs_key, peer_script>>

ConnClientInitPolled(r) == ConnClientInitResult(r, ClientInitEncryption(r.c, r.res))

\* one poll of the client's init_encryption future
ConnClientInit(room, wfail, n, rflag) ==
    /\ stage = "handshake"
    /\ ConnClientInitPolled(PollNext(conn, room, wfail, n, rflag))

\* send_packet by the user of the connection
ConnSend(p) ==
    /\ stage = "open"
    /\ Len(conn.h_sent) < MaxSends + (IF conn.is_server THEN 1 ELSE 0)
    /\ conn' = SendPacket(conn, p)
    /\ UNCHANGED <<stage, last, hs_key, peer_script>>

ConnPollResult(r) ==
    /\ conn' = r.c
    /\ last' = r.res
    /\ UNCHANGED <<stage, hs_key, peer_script>>

\* poll_next by the user of the connection
ConnPoll(room, wfail, n, rflag) ==
    /\ stage = "open"
    /\ ConnPollResult(PollNext(conn, room, wfail, n, rflag))

InitConn == InitConnVars /\ IdleCipherVars /\ IdleSessVars /\ IdleClientVars /\ IdleCodecVars /\ IdleSrvVars /\ IdleLiveVars /\ IdleTaskVars

NextConn ==
    \/ ConnServerInit /\ UNCHANGED <<cipherVars, sessVars, clientVars, codecVars, srvVars, liveVars, taskVars>>
    \/ \E i \in PollInputs(conn) :
           ConnClientInit(i.room, i.wfail, i.n, i.rflag) /\ UNCHANGED <<cipherVars, sessVars, clientVars, codecVars, srvVars, liveVars, taskVars>>
    \/ \E p \in UserPackets(conn.is_server) : ConnSend(p) /\ UNCHANGED <<cipherVars, sessVars, clientVars, codecVars, srvVars, liveVars, taskVars>>
    \/ \E i \in PollInputs(conn) :
           ConnPoll(i.room, i.wfail, i.n, i.rflag) /\ UNCHANGED <<cipherVars, sessVars, clientVars, codecVars, srvVars, liveVars, taskVars>>

SpecConn == InitConn /\ [][NextConn]_vars

-----------------------------------------------------------------------------
(* One client connection and a peer that may send a frame with a hostile   *)
(* length field                                                            *)

\* length fields of the frame a hostile peer appends: below the header
\* size, the cap itself, and above the cap
HostileLengths == {7, PacketCap, PacketCap + 1}

\* what a hostile peer appends to its stream as frame number fr: nothing, a
\* header with a hostile length and two more bytes, or the first five bytes
\* of such a header, after which the stream ends
HostileTails(fr) ==
    { <<>> }
    \cup { Tag(U32BE(l) \o U32BE(IdMeasurePing) \o <<1, 2>>, fr, 0) : l \in HostileLengths }
    \cup { Tag(U32BE(l) \o <<0>>, fr, 0) : l \in HostileLengths \ {PacketCap} }

\* payload sizes of the large packets a user sends: the frame is as long as
\* the cap, or one byte longer
BulkSizes == {PacketCap - HeaderLen, PacketCap - HeaderLen + 1}

\* send_packet by the user of the connection, of an UnknownPacket with a
\* payload of payload_size bytes; the model does not follow the connection
\* further, as it does not keep the payload
ConnSendBulk(payload_size) ==
    /\ stage = "open"
    /\ conn' = SendPacketBulk(conn, PktUnknown(9, <<>>), payload_size)
    /\ stage' = "bulk"
    /\ UNCHANGED <<last, hs_key, peer_script>>

\* Connection::allow_unknown_packets
AllowUnknownPackets(c) == [c EXCEPT !.decode_as_unknown = TRUE]

InitWireVars ==
    \E key \in ConnKeys, allow \in BOOLEAN :
        /\ hs_key = key
        /\ peer_script \in SeqsUpTo(PeerPackets(FALSE), MaxPeerFrames)
        /\ \E tail \in HostileTails(Len(peer_script) + 2) :
               /\ tail # <<>> => Len(peer_script) < MaxPeerFrames
               /\ conn = IF allow
                         THEN AllowUnknownPackets(ConnectionNew(FALSE,
                                  PeerStream(FALSE, key, peer_script) \o tail))
                         ELSE ConnectionNew(FALSE, PeerStream(FALSE, key, peer_script) \o tail)
        /\ stage = "handshake"
        /\ last = Pending

InitWire == InitWireVars /\ IdleCipherVars /\ IdleSessVars /\ IdleClientVars /\ IdleCodecVars /\ IdleSrvVars /\ IdleLiveVars /\ IdleTaskVars

NextWire ==
    \/ \E i \in PollInputs(conn) :
           ConnClientInit(i.room, i.wfail, i.n, i.rflag) /\ UNCHANGED <<cipherVars, sessVars, clientVars, codecVars, srvVars, liveVars, taskVars>>
    \/ \E p \in UserPackets(conn.is_server) : ConnSend(p) /\ UNCHANGED <<cipherVars, sessVars, clientVars, codecVars, srvVars, liveVars, taskVars>>
    \/ \E i \in PollInputs(conn) :
           ConnPoll(i.room, i.wfail, i.n, i.rflag) /\ UNCHANGED <<cipherVars, sessVars, clientVars, codecVars, srvVars, liveVars, taskVars>>
    \/ \E size \in BulkSizes :
           ConnSendBulk(size) /\ UNCHANGED <<cipherVars, sessVars, clientVars, codecVars, srvVars, liveVars, taskVars>>

SpecWire == InitWire /\ [][NextWire]_vars

-----------------------------------------------------------------------------
(* The handler registry (client-utils/src/handler.rs). The operators work  *)
(* on a session record s, or on w = [c: the connection, s: the session]    *)
(* where a handler gets the &mut Session.                                  *)

\* handlers the user of a session registers, at most
MaxHandlers == 2

\* PacketHandler implementations: LowLevelPing of handler.rs, and handlers
\* of a user: Spawner registers a LowLevelPing from its first handle_packet,
\* Quitter removes itself in handle_packet, Remover removes the handler
\* registered after it, Failer's handle_packet returns an error, OneShot's
\* poll is ready at once, PollFailer's poll returns an error
UserKinds == {"LowLevelPing", "Spawner", "Quitter", "Remover", "Failer", "OneShot", "PollFailer"}

\* Task implementations: AwaitPingTask is ready with a value once it has
\* seen a PingMeasurePing, FailingTask is ready with an error,
\* TaskSimpleAction is the task of crystal-bot: its executor sends a
\* PingMeasurePong as the prelude, its matcher returns Ok(Some) for a
\* PingMeasurePing and Ok(None) for any other packet
TaskKinds == {"AwaitPingTask", "FailingTask", "TaskSimpleAction"}

\* HandlerAwaitMatching of handler.rs, with the matcher of
\* await_server_resources_loaded's shape: Some(()) for one packet type (here
\* PingMeasurePing), None for any other
AwaitKinds == {"HandlerAwaitMatching"}

\* the handlers that are built with Some(sender)
SenderKinds == TaskKinds \cup AwaitKinds

\* a handler object: task is the state of a TaskSimpleAction (executor: it
\* is Some, tx: the sender is Some, rx: what its own channel holds), flag is
\* the object's own state otherwise (Spawner: has spawned,
\* AwaitPingTask: has seen the ping), tx is TaskHandler's Some(sender)
HandlerNew(kind) ==
    [kind |-> kind, flag |-> FALSE, tx |-> kind \in SenderKinds,
     task |-> [executor |-> kind = "TaskSimpleAction", tx |-> TRUE, rx |-> "empty"]]

\* BTreeMap::insert, BTreeMap::remove
MapInsert(m, id, v) == [i \in DOMAIN m \cup {id} |-> IF i = id THEN v ELSE m[i]]
MapRemove(m, id) == [i \in DOMAIN m \ {id} |-> m[i]]

\* the key the iteration of the map visits after cur (0: none)
NextId(m, cur) ==
    IF \E i \in DOMAIN m : i > cur
    THEN CHOOSE i \in DOMAIN m : i > cur /\ \A j \in DOMAIN m : j > cur => i <= j
    ELSE 0

\* history of the running dispatch
NoteReg(s, id) ==
    IF s.iterating = "handle" THEN [s EXCEPT !.dlog[Len(s.dlog)].reg = @ \cup {id}] ELSE s
NoteUnreg(s, id) ==
    IF s.iterating = "handle" THEN [s EXCEPT !.dlog[Len(s.dlog)].unreg = @ \cup {id}] ELSE s
NoteInvoked(s, id) == [s EXCEPT !.dlog[Len(s.dlog)].invoked = Append(@, id)]
NoteSent(s, id, fr) == [s EXCEPT !.dlog[Len(s.dlog)].sends = Append(@, [by |-> id, fr |-> fr])]
NoteErr(s, id) == [s EXCEPT !.dlog[Len(s.dlog)].err = id]

\* history: handle or poll returns
Returned(s, op) ==
    [s EXCEPT !.ret = Append(@, [op |-> op,
                                 pending |-> Len(s.pending_handler_updates),
                                 synced |-> DOMAIN s.handler = s.want])]

\* the handler id leaves the map and is dropped; dropping a TaskHandler
\* that still holds its sender closes the channel
MapDrop(s, id) ==
    IF id \notin DOMAIN s.handler THEN s
    ELSE [s EXCEPT !.handler = MapRemove(@, id),
                   !.rx = IF s.handler[id].tx /\ @ = "empty" THEN "closed" ELSE @]

\* register_handler that inserts while the map is iterated
RegisterHandlerBug(s, h) ==
    [NoteReg(s, s.handler_index + 1) EXCEPT
        !.handler_index = @ + 1,
        !.handler = MapInsert(@, s.handler_index + 1, h),
        !.want = @ \cup {s.handler_index + 1}]

\* a register_handler that takes the number of handlers in the map for the
\* new id
RegisterHandlerReuseBug(s, h) ==
    [s EXCEPT !.handler_index = @ + 1,
              !.handler = MapInsert(@, Cardinality(DOMAIN s.handler) + 1, h),
              !.want = @ \cup {Cardinality(DOMAIN s.handler) + 1}]

\* register_handler: the new id is handler_index + 1
RegisterHandler(s, h) ==
    IF s.iterating = "none"
    THEN [s EXCEPT !.handler_index = @ + 1,
                   !.handler = MapInsert(@, s.handler_index + 1, h),
                   !.want = @ \cup {s.handler_index + 1}]
    ELSE [NoteReg(s, s.handler_index + 1) EXCEPT
                   !.handler_index = @ + 1,
                   !.pending_handler_updates =
                       Append(@, [op |-> "Register", id |-> s.handler_index + 1, h |-> h]),
                   !.want = @ \cup {s.handler_index + 1}]

\* remove_handler that removes while the map is iterated
RemoveHandlerBug(s, handler_id) ==
    [MapDrop(NoteUnreg(s, handler_id), handler_id) EXCEPT
        !.want = @ \ {handler_id},
        !.removed = @ \cup {handler_id}]

\* remove_handler
RemoveHandler(s, handler_id) ==
    IF s.iterating = "none"
    THEN [MapDrop(s, handler_id) EXCEPT !.want = @ \ {handler_id},
                                        !.removed = @ \cup {handler_id}]
    ELSE [NoteUnreg(s, handler_id) EXCEPT
                   !.pending_handler_updates =
                       Append(@, [op |-> "Unregister", id |-> handler_id, h |-> <<>>]),
                   !.want = @ \ {handler_id},
                   !.removed = @ \cup {handler_id}]

\* commit_post_handle_updates, one update
ApplyUpdate(s, update) ==
    IF update.op = "Register"
    THEN [s EXCEPT !.handler = MapInsert(@, update.id, update.h)]
    ELSE MapDrop(s, update.id)

RECURSIVE ApplyUpdates(_, _)
ApplyUpdates(s, q) ==
    IF q = <<>> THEN s ELSE ApplyUpdates(ApplyUpdate(s, Head(q)), Tail(q))

\* commit_post_handle_updates
CommitPostHandleUpdates(s) ==
    ApplyUpdates([s EXCEPT !.pending_handler_updates = <<>>], s.pending_handler_updates)

IsPing(p) == p.id = IdMeasurePing /\ ~p.unknown

\* LowLevelPing::handle_packet
LowLevelPingHandle(w, id, p) ==
    IF IsPing(p)
    THEN [c |-> SendPacket(w.c, PktMeasurePong),
          s |-> NoteSent(w.s, id, Len(w.c.h_sent) + 1)]
    ELSE w

\* HandlerAwaitMatching::handle_packet when the matcher returned Some: the
\* sender is taken and the value sent; a failed send (receiver dropped) is
\* ignored
AwaitMatchingMatched(s, id, h) ==
    IF h.tx
    THEN [s EXCEPT !.handler[id].tx = FALSE,
                   !.rx = IF @ = "empty" THEN "Ok" ELSE @]
    ELSE s

\* HandlerAwaitMatching::poll: ready once the sender is taken or the
\* receiver is gone (poll_closed)
AwaitMatchingPoll(s, h) ==
    IF h.tx /\ s.rx # "dropped" THEN "Pending" ELSE "Ok"

\* TaskSimpleAction::submit_result from handle_packet: the sender is taken
\* and the result sent to the task's own receiver
SubmitResult(s, id) ==
    [s EXCEPT !.handler[id].task.tx = FALSE,
              !.handler[id].task.rx = "Ok",
              !.tlog.results = @ + 1]

\* TaskSimpleAction::handle_packet (behind TaskHandler::handle_packet)
SimpleActionHandlePacket(s, id, h, p) ==
    IF h.task.executor THEN s
    ELSE IF ~h.task.tx THEN s
    ELSE IF IsPing(p)
    THEN SubmitResult([s EXCEPT !.tlog.early = @ \/ s.tlog.execs = 0], id)
    ELSE [s EXCEPT !.tlog.early = @ \/ s.tlog.execs = 0]

\* handle_packet of the handler id, which is h: [w, err]
HandlerHandlePacket(w, id, h, p) ==
    IF h.kind = "LowLevelPing"
    THEN [w |-> LowLevelPingHandle(w, id, p), err |-> FALSE]
    ELSE IF h.kind = "Spawner" /\ ~h.flag
    THEN [w |-> [w EXCEPT !.s = RegisterHandler([@ EXCEPT !.handler[id].flag = TRUE],
                                                HandlerNew("LowLevelPing"))],
          err |-> FALSE]
    ELSE IF h.kind = "Quitter"
    THEN [w |-> [w EXCEPT !.s = RemoveHandler(@, id)], err |-> FALSE]
    ELSE IF h.kind = "Remover"
    THEN [w |-> [w EXCEPT !.s = RemoveHandler(@, id + 1)], err |-> FALSE]
    ELSE IF h.kind = "Failer"
    THEN [w |-> w, err |-> TRUE]
    ELSE IF h.kind = "AwaitPingTask" /\ IsPing(p)
    THEN [w |-> [w EXCEPT !.s.handler[id].flag = TRUE], err |-> FALSE]
    ELSE IF h.kind = "TaskSimpleAction"
    THEN [w |-> [w EXCEPT !.s = SimpleActionHandlePacket(@, id, h, p)], err |-> FALSE]
    ELSE IF h.kind = "HandlerAwaitMatching" /\ IsPing(p)
    THEN [w |-> [w EXCEPT !.s = AwaitMatchingMatched(@, id, h)], err |-> FALSE]
    ELSE [w |-> w, err |-> FALSE]

RECURSIVE HandleFrom(_, _, _)
\* a handle that goes on to the next handler after an error
HandleNextBug(r, id, p) ==
    IF r.err THEN HandleFrom([r.w EXCEPT !.s = NoteErr(@, id)], id, p)
    ELSE HandleFrom(r.w, id, p)

\* handle after handle_packet of the handler id returned r: `?`
HandleNext(r, id, p) ==
    IF r.err
    THEN [w |-> [r.w EXCEPT !.s = Returned([NoteErr(@, id) EXCEPT !.iterating = "none"],
                                           "handle")],
          err |-> TRUE]
    ELSE HandleFrom(r.w, id, p)

HandleAt(w, id, p) ==
    HandleNext(HandlerHandlePacket([w EXCEPT !.s = NoteInvoked(@, id)], id,
                                   w.s.handler[id], p),
               id, p)

\* handle, the iteration after the key cur
HandleFrom(w, cur, p) ==
    IF NextId(w.s.handler, cur) = 0
    THEN [w |-> [w EXCEPT !.s = Returned(CommitPostHandleUpdates(
                                             [@ EXCEPT !.iterating = "none"]), "handle")],
          err |-> FALSE]
    ELSE HandleAt(w, NextId(w.s.handler, cur), p)

\* history: a dispatch of the frame the connection decoded last begins
DispatchStarted(s, c) ==
    [s EXCEPT !.iterating = "handle",
              !.dlog = Append(@, [fr |-> c.h_parsed[Len(c.h_parsed)].fr,
                                  parsed |-> Len(c.h_parsed),
                                  start |-> DOMAIN s.handler,
                                  gone |-> s.removed,
                                  disc |-> s.disconnected,
                                  invoked |-> <<>>,
                                  err |-> 0,
                                  reg |-> {},
                                  unreg |-> {},
                                  sends |-> <<>>])]

\* PacketHandlerRegistry::handle: [w, err]
RegistryHandle(w, p) == HandleFrom([w EXCEPT !.s = DispatchStarted(@, w.c)], 0, p)

\* Task::poll of the task in h: "Pending", or what it is ready with
TaskPoll(h) ==
    IF h.kind = "AwaitPingTask" THEN (IF h.flag THEN "Ok" ELSE "Pending") ELSE "TaskErr"

\* the executor of the task runs: it sends the prelude
ExecutorRun(w) ==
    [c |-> SendPacket(w.c, PktMeasurePong),
     s |-> [w.s EXCEPT !.tlog.execs = Min(@ + 1, 2),
                       !.tlog.exec_at = IF @ = 0 THEN w.s.tlog.polls ELSE @]]

\* a poll that runs the executor whether it was taken or not
SimpleActionExecutedBug(w, id, h) ==
    ExecutorRun([w EXCEPT !.s.handler[id].task.executor = FALSE])

\* TaskSimpleAction::poll: if let Some(executor) = self.executor.take()
SimpleActionExecuted(w, id, h) ==
    IF h.task.executor
    THEN ExecutorRun([w EXCEPT !.s.handler[id].task.executor = FALSE])
    ELSE w

\* TaskSimpleAction::poll: self.rx.poll_unpin(cx)
SimpleActionRx(h) == IF h.task.rx = "Ok" THEN "Ok" ELSE "Pending"

\* TaskSimpleAction::poll: the world after it, the result is SimpleActionRx
SimpleActionPoll(w, id, h) ==
    SimpleActionExecuted([w EXCEPT !.s.tlog.polls = Min(@ + 1, 2)], id, h)

\* TaskHandler::poll after the task returned t: [w, res]
TaskHandlerPolled(w, id, h, t) ==
    IF t = "Pending" THEN [w |-> w, res |-> "Pending"]
    ELSE IF ~h.tx THEN [w |-> w, res |-> "Err"]
    ELSE IF w.s.rx = "dropped"
    THEN [w |-> [w EXCEPT !.s.handler[id].tx = FALSE], res |-> "Err"]
    ELSE [w |-> [w EXCEPT !.s.handler[id].tx = FALSE, !.s.rx = t], res |-> "Ok"]

\* poll of the handler id, which is h: [w, res]
HandlerPoll(w, id, h) ==
    IF h.kind = "OneShot" THEN [w |-> w, res |-> "Ok"]
    ELSE IF h.kind = "PollFailer" THEN [w |-> w, res |-> "Err"]
    ELSE IF h.kind = "TaskSimpleAction"
    THEN TaskHandlerPolled(SimpleActionPoll(w, id, h), id, h, SimpleActionRx(h))
    ELSE IF h.kind \in TaskKinds THEN TaskHandlerPolled(w, id, h, TaskPoll(h))
    ELSE IF h.kind \in AwaitKinds THEN [w |-> w, res |-> AwaitMatchingPoll(w.s, h)]
    ELSE [w |-> w, res |-> "Pending"]

\* history: the poll of the handler id returned res
NotePolled(s, id, res) == [s EXCEPT !.plog = Append(@, [id |-> id, res |-> res])]

RECURSIVE PollFrom(_, _)
\* poll after the poll of the handler id returned r
PollNextHandler(r, id) ==
    IF r.res = "Err"
    THEN [w |-> [r.w EXCEPT !.s = Returned([NotePolled(@, id, r.res) EXCEPT
                                                !.iterating = "none"], "poll")],
          err |-> TRUE]
    ELSE IF r.res = "Ok"
    THEN PollFrom([r.w EXCEPT !.s = RemoveHandler(NotePolled(@, id, r.res), id)], id)
    ELSE PollFrom([r.w EXCEPT !.s = NotePolled(@, id, r.res)], id)

\* poll, the iteration after the key cur
PollFrom(w, cur) ==
    IF NextId(w.s.handler, cur) = 0
    THEN [w |-> [w EXCEPT !.s = Returned(CommitPostHandleUpdates(
                                             [@ EXCEPT !.iterating = "none"]), "poll")],
          err |-> FALSE]
    ELSE PollNextHandler(HandlerPoll(w, NextId(w.s.handler, cur),
                                     w.s.handler[NextId(w.s.handler, cur)]),
                         NextId(w.s.handler, cur))

\* PacketHandlerRegistry::poll: [w, err]
RegistryPoll(w) == PollFrom([w EXCEPT !.s.iterating = "poll"], 0)

-----------------------------------------------------------------------------
(* Session (protocol/src/session.rs) *)

\* handle_handler_error, handle_connection_error
HandleHandlerError(w) == [w EXCEPT !.s.disconnected = TRUE]
HandleConnectionError(w) == [w EXCEPT !.s.disconnected = TRUE]

\* handle_packet after handle returned r
HandledPacket(r) == IF r.err THEN HandleHandlerError(r.w) ELSE r.w

\* a handle_packet that offers the packet to no handler
SessionHandlePacketBug(w, p) == w

\* Session::handle_packet
SessionHandlePacket(w, p) == HandledPacket(RegistryHandle(w, p))

RECURSIVE SessionLoop(_, _, _, _, _)
\* a loop that goes on to the next packet after it has handled one
SessionLoopNextBug(w, r) ==
    IF r.res.kind = "Item"
    THEN SessionLoop(SessionHandlePacket([w EXCEPT !.c = r.c], r.res.pkt),
                     0, FALSE, 0, "pending")
    ELSE IF r.res.kind = "Err"
    THEN SessionLoop(HandleConnectionError([w EXCEPT !.c = r.c]), 0, FALSE, 0, "pending")
    ELSE IF r.res.kind = "None"
    THEN [w |-> [w EXCEPT !.c = r.c], res |-> "Ready"]
    ELSE [w |-> [w EXCEPT !.c = r.c], res |-> "Pending"]

\* the loop of Session::poll after poll_next returned r: [w, res]; woke is
\* history: cx.waker().clone().wake() before the return
SessionLoopNext(w, r) ==
    IF r.res.kind = "Item"
    THEN [w |-> [SessionHandlePacket([w EXCEPT !.c = r.c], r.res.pkt) EXCEPT
                     !.s.woke = TRUE],
          res |-> "Pending"]
    ELSE IF r.res.kind = "Err"
    THEN SessionLoop(HandleConnectionError([w EXCEPT !.c = r.c]), 0, FALSE, 0, "pending")
    ELSE IF r.res.kind = "None"
    THEN [w |-> [w EXCEPT !.c = r.c], res |-> "Ready"]
    ELSE [w |-> [w EXCEPT !.c = r.c], res |-> "Pending"]

\* the loop of Session::poll
SessionLoop(w, room, wfail, n, rflag) ==
    SessionLoopNext(w, PollNext(w.c, room, wfail, n, rflag))

\* Session::poll after the registry's poll returned r
SessionPolledHandlers(r, room, wfail, n, rflag) ==
    SessionLoop(IF r.err THEN HandleHandlerError(r.w) ELSE r.w, room, wfail, n, rflag)

\* history: a poll of the session gets past the disconnected check; the
\* returns of handle / poll and the results of the handlers' polls are
\* recorded anew, and a future dropped before this poll has now seen a
\* progress cycle
ProgressStarted(s) ==
    [s EXCEPT !.ret = <<>>,
              !.plog = <<>>,
              !.woke = FALSE,
              !.task = IF @ = "dropped" THEN "dropped, polled" ELSE @]

\* Session::poll: [w, res]
SessionPoll(w, room, wfail, n, rflag) ==
    IF w.s.disconnected THEN [w |-> w, res |-> "Ready"]
    ELSE SessionPolledHandlers(RegistryPoll([w EXCEPT !.s = ProgressStarted(@)]),
                               room, wfail, n, rflag)

\* TaskHandle::poll after the session's poll returned r: the session with
\* what the handle resolved with, if it did
TaskHandlePolled(r) ==
    IF r.res = "Ready" THEN [r.w.s EXCEPT !.task = "client disconnected"]
    ELSE IF r.w.s.rx \in {"Ok", "TaskErr"} THEN [r.w.s EXCEPT !.task = r.w.s.rx]
    ELSE IF r.w.s.rx = "closed" THEN [r.w.s EXCEPT !.task = "result recv error"]
    ELSE r.w.s

\* await_match, the branch `result = rx`: the session with what the future
\* resolved with, if the receiver is ready
AwaitMatchRx(s) ==
    IF s.rx = "Ok" THEN [s EXCEPT !.task = "Ok"]
    ELSE IF s.rx = "closed" THEN [s EXCEPT !.task = "recv error"]
    ELSE s

\* await_match, the branch `_ = self` after the session's poll returned r,
\* the receiver having been polled before it (first = "rx") or being polled
\* after it
AwaitMatchSession(r, first) ==
    IF r.res = "Ready"
    THEN [RemoveHandler(r.w.s, r.w.s.handler_id) EXCEPT !.task = "client disconnected"]
    ELSE IF first = "rx" THEN r.w.s
    ELSE AwaitMatchRx(r.w.s)

\* one poll of the future of await_match: select! polls its two branches in
\* an order drawn at random, and the first that is ready wins: [c, s]
AwaitMatchPoll(w, first, room, wfail, n, rflag) ==
    IF first = "rx" /\ w.s.rx \in {"Ok", "closed"}
    THEN [c |-> w.c, s |-> AwaitMatchRx(w.s)]
    ELSE [c |-> SessionPoll(w, room, wfail, n, rflag).w.c,
          s |-> AwaitMatchSession(SessionPoll(w, room, wfail, n, rflag), first)]

\* the language code of the session builder (set_lang_code(""))
Lang == <<>>

\* connect_with_socket after init_encryption returned i
Connected(i) ==
    IF i.res = "Ok" THEN SendPacket(i.c, PktEncryptionInitialized(Lang)) ELSE i.c

\* connect_with_socket after the client's next().await returned r
ConnectPolled(r) == Connected(ClientInitEncryption(r.c, r.res))

\* connect_with_socket over a socket that delivers the handshake frame in
\* one read: the connection of the session
ConnectWithSocket(rx, key) ==
    ConnectPolled(PollNext(ConnectionNew(FALSE, rx), 0, FALSE, HandshakeFrameLen(key), "pending"))

-----------------------------------------------------------------------------
(* One session, its user and its peer *)

\* what the server sends to a session: pings, and a frame of an unknown id
SessionPeerPackets == { PktMeasurePing, PktUnknown(9, <<7>>) }

InitSessionVars ==
    \E key \in ConnKeys :
        /\ hs_key = key
        /\ peer_script \in SeqsUpTo(SessionPeerPackets, MaxPeerFrames)
        /\ conn = ConnectWithSocket(PeerStream(FALSE, key, peer_script), key)
        /\ stage = "session"
        /\ last = Pending
        /\ sess = SessionNew

\* the user registers and removes handlers before it first awaits the session
SetUp == last.kind = "Pending"

\* register_packet_handler by the user
SessRegister(kind) ==
    /\ stage = "session"
    /\ SetUp
    /\ sess.task # "pending"
    /\ sess.handler_index < MaxHandlers
    /\ sess' = RegisterHandler(sess, HandlerNew(kind))
    /\ UNCHANGED connVars

\* remove_packet_handler by the user
SessRemove(handler_id) ==
    /\ stage = "session"
    /\ SetUp
    /\ sess.task # "pending"
    /\ sess' = RemoveHandler(sess, handler_id)
    /\ UNCHANGED connVars

\* execute_task by the user: the TaskHandle borrows the session
SessExecuteTask(kind) ==
    /\ stage = "session"
    /\ SetUp
    /\ sess.task = "none"
    /\ sess.handler_index < MaxHandlers
    /\ sess' = [RegisterHandler(sess, HandlerNew(kind)) EXCEPT
                    !.rx = "empty", !.task = "pending", !.fut = "task"]
    /\ UNCHANGED connVars

\* await_match by the user, up to its first poll: the channel and the handler
SessAwaitMatch(kind) ==
    /\ stage = "session"
    /\ SetUp
    /\ sess.task = "none"
    /\ sess.handler_index < MaxHandlers
    /\ sess' = [RegisterHandler(sess, HandlerNew(kind)) EXCEPT
                    !.rx = "empty", !.task = "pending", !.fut = "match",
                    !.handler_id = sess.handler_index + 1]
    /\ UNCHANGED connVars

SessPolled(r) ==
    /\ conn' = r.w.c
    /\ sess' = r.w.s
    /\ last' = [kind |-> "Session", res |-> r.res]
    /\ UNCHANGED <<stage, hs_key, peer_script>>

\* the user awaits the session: one poll of it
SessPoll(room, wfail, n, rflag) ==
    /\ stage = "session"
    /\ sess.task # "pending"
    /\ SessPolled(SessionPoll([c |-> conn, s |-> sess], room, wfail, n, rflag))

TaskPolled(r) ==
    /\ conn' = r.w.c
    /\ sess' = TaskHandlePolled(r)
    /\ last' = [kind |-> "Session", res |-> r.res]
    /\ UNCHANGED <<stage, hs_key, peer_script>>

\* the user awaits the TaskHandle: one poll of it
TaskHandlePoll(room, wfail, n, rflag) ==
    /\ stage = "session"
    /\ sess.task = "pending"
    /\ sess.fut = "task"
    /\ TaskPolled(SessionPoll([c |-> conn, s |-> sess], room, wfail, n, rflag))

AwaitMatchPolled(r) ==
    /\ conn' = r.c
    /\ sess' = r.s
    /\ last' = [kind |-> "Session", res |-> IF r.s.task = "pending" THEN "Pending" ELSE "Ready"]
    /\ UNCHANGED <<stage, hs_key, peer_script>>

\* the user awaits the future of await_match: one poll of it
AwaitMatchFuturePoll(first, room, wfail, n, rflag) ==
    /\ stage = "session"
    /\ sess.task = "pending"
    /\ sess.fut = "match"
    /\ AwaitMatchPolled(AwaitMatchPoll([c |-> conn, s |-> sess], first, room, wfail, n, rflag))

\* the user drops the TaskHandle or the future of await_match, and the
\* receiver with it
TaskHandleDrop ==
    /\ stage = "session"
    /\ sess.task = "pending"
    /\ sess' = [sess EXCEPT !.task = "dropped", !.rx = "dropped"]
    /\ UNCHANGED connVars

\* what the socket does during one poll of the session: as PollInputs, but
\* a poll that finds bytes to write or to read moves some
SessionInputs(c) ==
    { i \in PollInputs(c) : /\ i.room = 0 => (c.send_buffer = <<>> \/ i.wfail)
                            /\ (i.n = 0 /\ i.rflag = "pending") => Avail(c) = 0 }

InitSession == InitSessionVars /\ IdleCipherVars /\ IdleClientVars /\ IdleCodecVars /\ IdleSrvVars /\ IdleLiveVars /\ IdleTaskVars

NextSession ==
    \/ \E kind \in UserKinds : SessRegister(kind) /\ UNCHANGED <<cipherVars, clientVars, codecVars, srvVars, liveVars, taskVars>>
    \/ \E id \in DOMAIN sess.handler : SessRemove(id) /\ UNCHANGED <<cipherVars, clientVars, codecVars, srvVars, liveVars, taskVars>>
    \/ \E kind \in TaskKinds : SessExecuteTask(kind) /\ UNCHANGED <<cipherVars, clientVars, codecVars, srvVars, liveVars, taskVars>>
    \/ \E i \in SessionInputs(conn) :
           SessPoll(i.room, i.wfail, i.n, i.rflag) /\ UNCHANGED <<cipherVars, clientVars, codecVars, srvVars, liveVars, taskVars>>
    \/ \E i \in SessionInputs(conn) :
           TaskHandlePoll(i.room, i.wfail, i.n, i.rflag) /\ UNCHANGED <<cipherVars, clientVars, codecVars, srvVars, liveVars, taskVars>>
    \/ TaskHandleDrop /\ UNCHANGED <<cipherVars, clientVars, codecVars, srvVars, liveVars, taskVars>>
    \/ \E kind \in AwaitKinds : SessAwaitMatch(kind) /\ UNCHANGED <<cipherVars, clientVars, codecVars, srvVars, liveVars, taskVars>>
    \/ \E first \in {"rx", "session"} : \E i \in SessionInputs(conn) :
           AwaitMatchFuturePoll(first, i.room, i.wfail, i.n, i.rflag) /\ UNCHANGED <<cipherVars, clientVars, codecVars, srvVars, liveVars, taskVars>>

SpecSession == InitSession /\ [][NextSession]_vars

-----------------------------------------------------------------------------
(* The server's client (server/src/client.rs). The operators work on       *)
(* w = [c: the connection, k: the client]. Client::new registers one       *)
(* component, ConnectionPing, whose on_packet and poll never fail; no      *)
(* asynchronous task is enqueued.                                          *)

\* wait callbacks one client collects, at most
MaxWaits == 2

\* the text of an alert
AlertText == <<80>>

\* Client::send_packet
ClientSendPacket(w, p) ==
    IF w.k.connection_state # "Open" THEN w
    ELSE [w EXCEPT !.c = SendPacket(w.c, p)]

\* Client::disconnect
ClientDisconnect(w, flush) ==
    IF ~flush THEN [w EXCEPT !.k.connection_state = "Closed", !.k.callbacks = 0]
    ELSE IF w.k.connection_state = "Open"
    THEN [w EXCEPT !.k.connection_state = "Closing", !.k.callbacks = 1,
                   !.k.closing_tx = Len(w.c.socket.tx)]
    ELSE IF w.k.connection_state = "Closing"
    THEN [w EXCEPT !.k.callbacks = @ + 1]
    ELSE w

\* do_connection_close
DoConnectionClose(w) ==
    IF w.k.connection_state = "Closed" THEN w
    ELSE [w EXCEPT !.k.connection_state = "Closed",
                   !.k.callbacks = 0,
                   !.k.completed = w.k.callbacks,
                   !.k.closed_from = w.k.connection_state,
                   !.k.unwritten = Len(w.c.send_buffer)]

\* ProtocolError::ConnectionClosed(_)
ConnectionClosedErrors == {"ReadError", "WriteError", "Disconnected"}

\* handle_protocol_error
HandleProtocolError(w, error) ==
    IF error \in ConnectionClosedErrors THEN DoConnectionClose(w)
    ELSE ClientDisconnect(ClientSendPacket(w, PktAlertShow(AlertText)), TRUE)

\* ConnectionPing::on_packet
ConnectionPingOnPacket(w, p) ==
    IF p.id = IdMeasurePong /\ ~p.unknown THEN [w EXCEPT !.k.send_timestamp = FALSE]
    ELSE w

\* ConnectionPing::poll; tick: the interval has elapsed
ConnectionPingPoll(w, tick) ==
    IF tick /\ ~w.k.send_timestamp
    THEN ClientSendPacket([w EXCEPT !.k.send_timestamp = TRUE], PktMeasurePing)
    ELSE w

\* Client::handle_packet
ClientHandlePacket(w, p) == ConnectionPingOnPacket(w, p)

\* Connection::is_send_buffer_clear
IsSendBufferClear(c) == c.send_buffer = <<>>

\* Client::poll after its loop was left on Pending
ClientLoopLeft(w) ==
    IF w.k.connection_state = "Closing" /\ IsSendBufferClear(w.c)
    THEN DoConnectionClose(w) ELSE w

RECURSIVE ClientLoop(_, _, _, _, _)
\* the loop of Client::poll after poll_next returned r; of the room bytes
\* the socket accepts and the n bytes it has to give, a further poll_next
\* finds what this one left
ClientLoopNext(w, r, room, n, rflag) ==
    IF r.res.kind = "Item"
    THEN ClientLoop(ClientHandlePacket([w EXCEPT !.c = r.c], r.res.pkt),
                    room - (Len(r.c.socket.tx) - Len(w.c.socket.tx)), FALSE,
                    n - (Len(w.c.socket.rx) - Len(r.c.socket.rx)), rflag)
    ELSE IF r.res.kind = "Err"
    THEN ClientLoop(HandleProtocolError([w EXCEPT !.c = r.c], r.res.err),
                    0, FALSE, 0, "pending")
    ELSE IF r.res.kind = "None"
    THEN [w |-> DoConnectionClose([w EXCEPT !.c = r.c]), res |-> "Ready"]
    ELSE [w |-> ClientLoopLeft([w EXCEPT !.c = r.c]), res |-> "Pending"]

\* the loop of Client::poll
ClientLoop(w, room, wfail, n, rflag) ==
    ClientLoopNext(w, PollNext(w.c, room, wfail, n, rflag), room, n, rflag)

\* Client::poll after the components were polled
ClientPolledComponents(w, room, wfail, n, rflag) ==
    IF w.k.connection_state = "Closed" THEN [w |-> w, res |-> "Ready"]
    ELSE ClientLoop(w, room, wfail, n, rflag)

\* <Client as Future>::poll: [w, res]
ClientPoll(w, tick, room, wfail, n, rflag) ==
    ClientPolledComponents(ConnectionPingPoll(w, tick), room, wfail, n, rflag)

\* Client::new after connection.next() returned r: the connection of the
\* client (the model's peer answers the handshake as a client does)
ClientNewPolled(r) == r.c

\* Client::new over a socket that takes the handshake frame at once and
\* delivers the client's answer in one read
ClientNew(rx, key) ==
    ClientNewPolled(PollNext(ServerInitEncryption(ConnectionNew(TRUE, rx), key),
                             HandshakeFrameLen(key), FALSE,
                             HeaderLen + Len(PacketEncode(PktEncryptionInitialized(Lang))),
                             "pending"))

-----------------------------------------------------------------------------
(* One client of the server, its owner and its peer *)

\* what the game client sends: pongs, and a frame of an unknown id
ClientPeerPackets == { PktMeasurePong, PktUnknown(9, <<7>>) }

\* what the owner of the client sends
OwnerPackets == { PktMeasurePing, PktAlertShow(AlertText) }

InitClientVars ==
    \E key \in ConnKeys :
        /\ hs_key = key
        /\ peer_script \in SeqsUpTo(ClientPeerPackets, MaxPeerFrames)
        /\ conn = ClientNew(PeerStream(TRUE, key,
                                 <<PktEncryptionInitialized(Lang)>> \o peer_script), key)
        /\ stage = "client"
        /\ last = Pending
        /\ client = ClientSelf

\* the owner calls send_packet
ClientSend(p) ==
    /\ stage = "client"
    /\ last.kind # "Ready"
    /\ Len(conn.h_sent) < MaxSends + 1
    /\ conn' = ClientSendPacket([c |-> conn, k |-> client], p).c
    /\ UNCHANGED <<stage, last, hs_key, peer_script, client>>

\* the owner calls disconnect
ClientDisc(flush) ==
    /\ stage = "client"
    /\ last.kind # "Ready"
    /\ client.callbacks < MaxWaits
    /\ client.flush_futures < MaxWaits
    /\ client' = [ClientDisconnect([c |-> conn, k |-> client], flush).k EXCEPT
                      !.flush_futures = IF flush THEN @ + 1 ELSE @]
    /\ UNCHANGED connVars

\* the owner polls a future disconnect(true) returned: it is Box::pin(async
\* {}) on every path, the receiver of the callback having been dropped, and
\* completes at its first poll
ClientDiscAwait ==
    /\ stage = "client"
    /\ client.flush_futures > 0
    /\ client' = [client EXCEPT !.flush_futures = @ - 1,
                                !.done_in = @ \cup {client.connection_state},
                                !.done_unflushed = @ \/ conn.send_buffer # <<>>]
    /\ UNCHANGED connVars

ClientPolled(r) ==
    /\ conn' = r.w.c
    /\ client' = r.w.k
    /\ last' = [kind |-> r.res]
    /\ UNCHANGED <<stage, hs_key, peer_script>>

\* the server's executor polls the client
ClientPollStep(tick, room, wfail, n, rflag) ==
    /\ stage = "client"
    /\ last.kind # "Ready"
    /\ ClientPolled(ClientPoll([c |-> conn, k |-> client], tick, room, wfail, n, rflag))

InitClient == InitClientVars /\ IdleCipherVars /\ IdleSessVars /\ IdleCodecVars /\ IdleSrvVars /\ IdleLiveVars /\ IdleTaskVars

NextClient ==
    \/ \E p \in OwnerPackets : ClientSend(p) /\ UNCHANGED <<cipherVars, sessVars, codecVars, srvVars, liveVars, taskVars>>
    \/ \E flush \in BOOLEAN : ClientDisc(flush) /\ UNCHANGED <<cipherVars, sessVars, codecVars, srvVars, liveVars, taskVars>>
    \/ ClientDiscAwait /\ UNCHANGED <<cipherVars, sessVars, codecVars, srvVars, liveVars, taskVars>>
    \/ \E tick \in BOOLEAN : \E i \in SessionInputs(conn) :
           ClientPollStep(tick, i.room, i.wfail, i.n, i.rflag)
               /\ UNCHANGED <<cipherVars, sessVars, codecVars, srvVars, liveVars, taskVars>>

SpecClient == InitClient /\ [][NextClient]_vars

-----------------------------------------------------------------------------
(* The handshake: one side of a new connection and a scripted peer. The    *)
(* server side is driven as Client::new drives it, the client side by      *)
(* init_encryption alone ("handshake", and again after it failed) or by    *)
(* connect_with_socket ("connect").                                        *)

RECURSIVE ServerSends(_, _)
\* a server that sends the packets of script from its first frame on; it
\* installs its cipher as init_encryption does when it sends
\* InitializeEncryption
ServerSends(peer, script) ==
    IF script = <<>> THEN peer
    ELSE ServerSends(IF Head(script).id = IdInitializeEncryption /\ ~Head(script).unknown
                     THEN ServerInitEncryption(peer, Head(script).body)
                     ELSE SendPacket(peer, Head(script)),
                     Tail(script))

\* what a server sends first: the handshake and a ping; a ping before the
\* handshake; a frame of an unknown id; a handshake frame whose payload is
\* cut short; nothing
ServerScripts(key) ==
    { <<PktInitializeEncryption(key), PktMeasurePing>>,
      <<PktMeasurePing, PktInitializeEncryption(key)>>,
      <<PktUnknown(9, <<7>>)>>,
      <<PktUnknown(IdInitializeEncryption, <<0, 0, 0, 4, 1>>)>>,
      <<>> }

\* what a game client sends first: its answer to the handshake; a pong
\* before the answer; nothing
ClientScripts ==
    { <<PktEncryptionInitialized(Lang)>>,
      <<PktMeasurePong, PktEncryptionInitialized(Lang)>>,
      <<>> }

\* the bytes a game client sends: the one that answers the handshake is
\* connect_with_socket run on the frame the server's init_encryption sends
ClientBytes(key, script) ==
    IF script = <<PktEncryptionInitialized(Lang)>>
    THEN ConnectWithSocket(ServerInitEncryption(ConnectionNew(TRUE, <<>>), key).send_buffer,
                           key).send_buffer
    ELSE PeerStream(TRUE, key, script)

\* a Client::new that takes any packet for the client's answer
ClientNewResultBug(res) ==
    IF res.kind = "Item" THEN "Ok"
    ELSE IF res.kind = "Err" THEN "setup connection error"
    ELSE "connection closed while in setup"

\* Client::new: what it makes of the result of connection.next()
ClientNewResult(res) ==
    IF res.kind = "Item"
    THEN IF res.pkt.id = IdEncryptionInitialized /\ ~res.pkt.unknown THEN "Ok"
         ELSE "expected a encryption initialized packet"
    ELSE IF res.kind = "Err" THEN "setup connection error"
    ELSE "connection closed while in setup"

InitShakeVars ==
    \E key \in ConnKeys, role \in {"new", "handshake", "connect"} :
        /\ hs_key = key
        /\ stage = role
        /\ last = Pending
        /\ IF role = "new"
           THEN /\ peer_script \in ClientScripts
                /\ conn = ConnectionNew(TRUE, ClientBytes(key, peer_script))
           ELSE /\ peer_script \in ServerScripts(key)
                /\ conn = ConnectionNew(FALSE,
                              ServerSends(ConnectionNew(TRUE, <<>>), peer_script).send_buffer)

\* Client::new up to its first await that can be pending: init_encryption
ClientNewInit ==
    /\ stage = "new"
    /\ conn' = ServerInitEncryption(conn, hs_key)
    /\ stage' = "setup"
    /\ UNCHANGED <<last, hs_key, peer_script>>

ClientNewPolledNext(r) ==
    /\ conn' = r.c
    /\ IF r.res.kind = "Pending" THEN UNCHANGED <<stage, last>>
       ELSE /\ stage' = IF ClientNewResult(r.res) = "Ok" THEN "client" ELSE "rejected"
            /\ last' = [kind |-> "Init", res |-> ClientNewResult(r.res)]
    /\ UNCHANGED <<hs_key, peer_script>>

\* one poll of Client::new while it awaits connection.next()
ClientNewNext(room, wfail, n, rflag) ==
    /\ stage = "setup"
    /\ ClientNewPolledNext(PollNext(conn, room, wfail, n, rflag))

\* the timeout of Client::new elapses
ClientNewTimeout ==
    /\ stage = "setup"
    /\ stage' = "rejected"
    /\ last' = [kind |-> "Init", res |-> "setup timed out"]
    /\ UNCHANGED <<conn, hs_key, peer_script>>

\* init_encryption is called again on a connection whose handshake failed:
\* one poll of it
ConnClientInitAgain(room, wfail, n, rflag) ==
    /\ stage = "failed"
    /\ ConnClientInitPolled(PollNext(conn, room, wfail, n, rflag))

ConnectStepResult(r, i) ==
    /\ IF r.res.kind = "Pending"
       THEN /\ conn' = r.c
            /\ UNCHANGED <<stage, last>>
       ELSE /\ conn' = Connected(i)
            /\ stage' = IF i.res = "Ok" THEN "open" ELSE "refused"
            /\ last' = [kind |-> "Init", res |-> i.res]
    /\ UNCHANGED <<hs_key, peer_script>>

\* one poll of connect_with_socket
ConnectStep(room, wfail, n, rflag) ==
    /\ stage = "connect"
    /\ ConnectStepResult(PollNext(conn, room, wfail, n, rflag),
                         ClientInitEncryption(PollNext(conn, room, wfail, n, rflag).c,
                                              PollNext(conn, room, wfail, n, rflag).res))

InitShake == InitShakeVars /\ IdleCipherVars /\ IdleSessVars /\ IdleClientVars /\ IdleCodecVars /\ IdleSrvVars /\ IdleLiveVars /\ IdleTaskVars

NextShake ==
    \/ ClientNewInit /\ UNCHANGED <<cipherVars, sessVars, clientVars, codecVars, srvVars, liveVars, taskVars>>
    \/ \E i \in PollInputs(conn) :
           ClientNewNext(i.room, i.wfail, i.n, i.rflag)
               /\ UNCHANGED <<cipherVars, sessVars, clientVars, codecVars, srvVars, liveVars, taskVars>>
    \/ ClientNewTimeout /\ UNCHANGED <<cipherVars, sessVars, clientVars, codecVars, srvVars, liveVars, taskVars>>
    \/ \E i \in PollInputs(conn) :
           ConnClientInit(i.room, i.wfail, i.n, i.rflag)
               /\ UNCHANGED <<cipherVars, sessVars, clientVars, codecVars, srvVars, liveVars, taskVars>>
    \/ \E i \in PollInputs(conn) :
           ConnClientInitAgain(i.room, i.wfail, i.n, i.rflag)
               /\ UNCHANGED <<cipherVars, sessVars, clientVars, codecVars, srvVars, liveVars, taskVars>>
    \/ \E i \in PollInputs(conn) :
           ConnectStep(i.room, i.wfail, i.n, i.rflag)
               /\ UNCHANGED <<cipherVars, sessVars, clientVars, codecVars, srvVars, liveVars, taskVars>>
    \/ \E i \in PollInputs(conn) :
           ConnPoll(i.room, i.wfail, i.n, i.rflag)
               /\ UNCHANGED <<cipherVars, sessVars, clientVars, codecVars, srvVars, liveVars, taskVars>>

SpecShake == InitShake /\ [][NextShake]_vars

-----------------------------------------------------------------------------
(* A value through a codec: encode writes it, decode reads the bytes back; *)
(* or decode reads bytes that a peer wrote                                 *)

MaxChars == 3
MaxRaw == 3

\* chars of 1, 2, 3 and 4 UTF-8 bytes
Chars == {97, 98, 99, 233, 8364, 128512}

LengthValues ==
    {0, 1, 5, 127, 128, 129, 300, 16383, 16384, 20000, 65536, 4194303,
     4194304, 4194305, 16777216}

LengthBytes == {5, 44, 78, 128, 129, 192}

Utf8Sample == {97, 195, 169, 226, 130, 172, 255}

Ordinals == {-1, 0, 1, 2, 3, 4, 5, 6, 255, 2147483647, -2147483647 - 1}

\* the bytes a peer wrote where a String is read
StringReaders ==
    {<<>>, <<0>>, <<0, 0, 0>>}
        \cup { <<flag>> : flag \in {1, 2, 255} }
        \cup { <<0>> \o U32BE(Len(bytes) + more) \o bytes :
                   bytes \in SeqsUpTo(Utf8Sample, MaxRaw), more \in {0, 1} }

CodecOf(type, given, input) ==
    [type |-> type, given |-> given, input |-> input,
     phase |-> IF given = "value" THEN "value" ELSE "wire",
     wire |-> IF given = "value" THEN <<>> ELSE input,
     enc |-> [ok |-> FALSE], dec |-> [ok |-> FALSE]]

InitCodecVars ==
    codec \in { CodecOf("Length", "value", v) : v \in LengthValues }
        \cup { CodecOf("Length", "bytes", b) : b \in SeqsUpTo(LengthBytes, MaxRaw) }
        \cup { CodecOf("String", "value", s) : s \in SeqsUpTo(Chars, MaxChars) }
        \cup { CodecOf("String", "bytes", b) : b \in StringReaders }
        \cup { CodecOf("Enum", "value", v) :
                   v \in {CaptchaLocation[i] : i \in DOMAIN CaptchaLocation} \cup {"Unknown"} }
        \cup { CodecOf("Enum", "bytes", I32BE(o)) : o \in Ordinals }
        \cup { CodecOf("Enum", "bytes", <<0, 0>>) }

\* value.encode(&mut writer)
CodecWrite ==
    /\ codec.phase = "value"
    /\ LET enc == CodecEncode(codec.type, codec.input)
       IN  codec' = [codec EXCEPT !.enc = enc, !.wire = enc.out,
                                  !.phase = IF enc.ok THEN "wire" ELSE "failed"]

\* value.decode(&mut reader)
CodecRead ==
    /\ codec.phase = "wire"
    /\ codec' = [codec EXCEPT !.dec = CodecDecode(codec.type, codec.wire),
                              !.phase = "read"]

InitCodec ==
    InitCodecVars /\ IdleCipherVars /\ IdleConnVars /\ IdleSessVars /\ IdleClientVars
        /\ IdleSrvVars /\ IdleLiveVars /\ IdleTaskVars

NextCodec ==
    \/ CodecWrite /\ UNCHANGED <<cipherVars, connVars, sessVars, clientVars, srvVars, liveVars, taskVars>>
    \/ CodecRead /\ UNCHANGED <<cipherVars, connVars, sessVars, clientVars, srvVars, liveVars, taskVars>>

SpecCodec == InitCodec /\ [][NextCodec]_vars

-----------------------------------------------------------------------------
(* The server and the tasks of its clients. The threads are the task that  *)
(* polls the Server ("events"), the tasks that accept a socket ("accept"), *)
(* the main task, which shuts the server down ("main"), and one task per   *)
(* client. A step is what a thread does between two lock operations.       *)

\* a lock that does not wait for the holder
MutexFreeBug(m) == TRUE

\* Mutex::lock returns once no thread holds the mutex
MutexFree(m) == m.lock = "none"

\* main.rs: server.lock().unwrap(); server.register_client(client)
RegisterClient ==
    /\ srv.holder = "none" /\ ~srv.dead
    /\ IF srv.is_shutdown
       THEN /\ srv.cl[Orphan].task = "none"
            /\ srv' = [srv EXCEPT !.cl[Orphan].task = "ready",
                                  !.cl[Orphan].state = "Closing"]
       ELSE /\ srv.client_id_index < MaxClients
            /\ LET client_id == srv.client_id_index + 1
               IN  srv' = [srv EXCEPT !.client_id_index = client_id,
                                      !.clients = @ \cup {client_id},
                                      !.cl[client_id].task = "ready"]

\* the runtime polls the task of a client again: the socket or a timer woke it
TaskWake(id) ==
    /\ srv.cl[id].task = "wait"
    /\ srv' = [srv EXCEPT !.cl[id].task = "ready"]

\* the poll_fn of the client's task: client.lock(), then client.poll_unpin
\* begins; a poisoned lock ends the task, which reports the disconnect
TaskPollEnter(id, free) ==
    /\ srv.cl[id].task = "ready"
    /\ id # Orphan => free
    /\ IF id # Orphan /\ srv.cl[id].poisoned
       THEN srv' = [srv EXCEPT !.cl[id].task = "done",
                               !.events = Append(@, [kind |-> "ClientDisconnected", id |-> id])]
       ELSE srv' = [srv EXCEPT !.cl[id].task = "poll",
                               !.cl[id].lock = IF id = Orphan THEN @ ELSE "task",
                               !.cl[id].in_poll = @ + 1]

\* client.poll_unpin returns and the guard is dropped: ready once the
\* connection is closed, and then the task reports the disconnect; a
\* component may have reported the login
TaskPollExit(id, closed, login) ==
    /\ srv.cl[id].task = "poll"
    /\ LET state == IF closed \/ srv.cl[id].state = "Closed" THEN "Closed"
                    ELSE srv.cl[id].state
           authed == login /\ id # Orphan /\ ~srv.cl[id].authed
           sent == (IF authed THEN <<[kind |-> "ClientAuthenticated", id |-> id]>> ELSE <<>>)
                       \o (IF state = "Closed" /\ id # Orphan
                           THEN <<[kind |-> "ClientDisconnected", id |-> id]>> ELSE <<>>)
       IN  srv' = [srv EXCEPT !.cl[id].state = state,
                              !.cl[id].authed = @ \/ authed,
                              !.cl[id].task = IF state = "Closed" THEN "done" ELSE "wait",
                              !.cl[id].lock = IF id = Orphan THEN @ ELSE "none",
                              !.cl[id].in_poll = @ - 1,
                              !.events = @ \o sent]

\* client.poll_unpin panics: the guard is dropped while unwinding, which
\* poisons the Mutex, and the task is over
TaskPollPanic(id) ==
    /\ srv.cl[id].task = "poll"
    /\ srv' = [srv EXCEPT !.cl[id].task = "done",
                          !.cl[id].lock = IF id = Orphan THEN @ ELSE "none",
                          !.cl[id].poisoned = (id # Orphan),
                          !.cl[id].in_poll = @ - 1]

\* the task of main.rs polls the Server: server.lock(), then Server::poll
\* takes the events; ClientDisconnected is handled at once,
\* ClientAuthenticated of a client of the map goes on to client.lock()
EventsNext ==
    /\ srv.holder \in {"none", "events"} /\ ~srv.dead
    /\ srv.at = -1
    /\ srv.holder = "none" => srv.events # <<>>
    /\ IF srv.events = <<>> THEN srv' = [srv EXCEPT !.holder = "none"]
       ELSE LET event == Head(srv.events)
            IN  IF event.kind = "ClientDisconnected"
                THEN srv' = [srv EXCEPT !.holder = "events", !.events = Tail(@),
                                        !.clients = @ \ {event.id}]
                ELSE IF event.id \notin srv.clients
                THEN srv' = [srv EXCEPT !.holder = "events", !.events = Tail(@)]
                ELSE srv' = [srv EXCEPT !.holder = "events", !.events = Tail(@),
                                        !.todo = {event.id}]

\* main.rs: server.lock().unwrap(); server.shutdown() up to its loop
ShutdownBegin ==
    /\ srv.holder = "none" /\ ~srv.dead
    /\ ~srv.is_shutdown
    /\ srv' = [srv EXCEPT !.holder = "main", !.is_shutdown = TRUE, !.todo = srv.clients]

\* the end of Server::shutdown: the guard of main.rs is dropped
ShutdownEnd ==
    /\ srv.holder = "main"
    /\ srv.at = -1 /\ srv.todo = {}
    /\ srv' = [srv EXCEPT !.holder = "none"]

\* client.lock() of Server::shutdown (the loop skips a poisoned Mutex) and
\* of handle_client_authenticated (whose unwrap panics on one, and the
\* panic poisons the Mutex of the Server)
ServerLockClient(id, free) ==
    /\ srv.holder \in {"main", "events"}
    /\ srv.at = -1 /\ srv.todo # {}
    /\ \A other \in srv.todo : id <= other
    /\ id \in srv.todo
    /\ free
    /\ IF srv.cl[id].poisoned
       THEN IF srv.holder = "main" THEN srv' = [srv EXCEPT !.todo = @ \ {id}]
            ELSE srv' = [srv EXCEPT !.todo = {}, !.holder = "none", !.dead = TRUE]
       ELSE srv' = [srv EXCEPT !.todo = @ \ {id}, !.at = id,
                               !.cl[id].lock = "server",
                               !.cl[id].in_call = @ + 1]

\* what the server does with the locked client (send_packet and
\* disconnect(true), or send_packet and register_component), then the drop
\* of the guard; all of it wakes the client's task
ServerCallDone ==
    /\ srv.at # -1
    /\ LET id == srv.at
       IN  srv' = [srv EXCEPT !.at = -1,
                              !.cl[id].lock = "none",
                              !.cl[id].in_call = @ - 1,
                              !.cl[id].state =
                                  IF srv.holder = "main" /\ @ = "Open" THEN "Closing" ELSE @,
                              !.cl[id].task = IF @ = "wait" THEN "ready" ELSE @]

InitServer ==
    IdleSrvVars /\ IdleLiveVars /\ IdleTaskVars /\ IdleCipherVars /\ IdleConnVars /\ IdleSessVars /\ IdleClientVars
        /\ IdleCodecVars

NextServer ==
    \/ RegisterClient /\ UNCHANGED <<cipherVars, connVars, sessVars, clientVars, codecVars, liveVars, taskVars>>
    \/ \E id \in 0..MaxClients :
           TaskWake(id) /\ UNCHANGED <<cipherVars, connVars, sessVars, clientVars, codecVars, liveVars, taskVars>>
    \/ \E id \in 0..MaxClients :
           TaskPollEnter(id, MutexFree(srv.cl[id]))
               /\ UNCHANGED <<cipherVars, connVars, sessVars, clientVars, codecVars, liveVars, taskVars>>
    \/ \E id \in 0..MaxClients, closed, login \in BOOLEAN :
           TaskPollExit(id, closed, login)
               /\ UNCHANGED <<cipherVars, connVars, sessVars, clientVars, codecVars, liveVars, taskVars>>
    \/ \E id \in 0..MaxClients :
           TaskPollPanic(id) /\ UNCHANGED <<cipherVars, connVars, sessVars, clientVars, codecVars, liveVars, taskVars>>
    \/ EventsNext /\ UNCHANGED <<cipherVars, connVars, sessVars, clientVars, codecVars, liveVars, taskVars>>
    \/ ShutdownBegin /\ UNCHANGED <<cipherVars, connVars, sessVars, clientVars, codecVars, liveVars, taskVars>>
    \/ ShutdownEnd /\ UNCHANGED <<cipherVars, connVars, sessVars, clientVars, codecVars, liveVars, taskVars>>
    \/ \E id \in 1..MaxClients :
           ServerLockClient(id, MutexFree(srv.cl[id]))
               /\ UNCHANGED <<cipherVars, connVars, sessVars, clientVars, codecVars, liveVars, taskVars>>
    \/ ServerCallDone /\ UNCHANGED <<cipherVars, connVars, sessVars, clientVars, codecVars, liveVars, taskVars>>

SpecServer == InitServer /\ [][NextServer]_vars

-----------------------------------------------------------------------------
(* Tasks (server/src/tasks.rs): the futures a Client runs, each with the   *)
(* callback that gets its value                                            *)

\* what a callback does: nothing more, or it enqueues a further task,
\* whose future is ready at once or pending, or whose callback enqueues
\* again
CallbackKinds == {"plain", "spawn ready", "spawn pending", "spawn spawner"}

\* Tasks::enqueue during the poll number now (0: outside of a poll), with
\* tasks borrowed or not
TasksEnqueue(q, kind, ready, borrowed, now) ==
    LET task == [id |-> q.ids + 1, ready |-> ready, kind |-> kind, callback |-> TRUE]
    IN  [q EXCEPT !.tasks = IF borrowed THEN @ ELSE Append(@, task),
                  !.new_tasks = IF borrowed THEN Append(@, task) ELSE @,
                  !.waker = FALSE,
                  !.ids = @ + 1,
                  !.log = Append(@, [enq_at |-> now, first_poll |-> 0, ready_at |-> 0,
                                     cb_at |-> 0, calls |-> 0, late |-> 0])]

\* the callback of the task t runs, inside of retain_mut
TaskCallback(q, t) ==
    IF t.kind = "plain" \/ q.ids >= MaxTasks THEN q
    ELSE IF t.kind = "spawn ready" THEN TasksEnqueue(q, "plain", TRUE, TRUE, q.polls)
    ELSE IF t.kind = "spawn pending" THEN TasksEnqueue(q, "plain", FALSE, TRUE, q.polls)
    ELSE TasksEnqueue(q, "spawn ready", TRUE, TRUE, q.polls)

\* history: the future of the task id is polled
NoteTaskPolled(q, t) ==
    [q EXCEPT !.log[t.id].first_poll = IF @ = 0 THEN q.polls ELSE @,
              !.log[t.id].late = IF q.log[t.id].ready_at > 0 THEN @ + 1 ELSE @,
              !.log[t.id].ready_at = IF t.ready /\ @ = 0 THEN q.polls ELSE @]

\* history: the callback of the task id is called
NoteTaskCalled(q, t) ==
    [q EXCEPT !.log[t.id].calls = @ + 1, !.log[t.id].cb_at = q.polls]

\* RegisteredTaskImpl::poll: [q, t, ready]
RegisteredTaskPoll(q, t) ==
    IF ~t.ready THEN [q |-> NoteTaskPolled(q, t), t |-> t, ready |-> FALSE]
    ELSE IF t.callback
    THEN [q |-> TaskCallback(NoteTaskCalled(NoteTaskPolled(q, t), t), t),
          t |-> [t EXCEPT !.callback = FALSE], ready |-> TRUE]
    ELSE [q |-> NoteTaskPolled(q, t), t |-> t, ready |-> TRUE]

\* retain_mut: what is kept after the poll of a task returned r
Retained(r, kept) == IF r.ready THEN kept ELSE Append(kept, r.t)

RECURSIVE RetainMut(_, _, _)
\* retain_mut after the poll of the head of todo returned r
RetainNext(r, todo, kept) == RetainMut(r.q, Tail(todo), Retained(r, kept))

\* self.tasks.borrow_mut().retain_mut(..): todo are the tasks still to
\* poll, kept the ones retained so far
RetainMut(q, todo, kept) ==
    IF todo = <<>> THEN [q EXCEPT !.tasks = kept]
    ELSE RetainNext(RegisteredTaskPoll(q, Head(todo)), todo, kept)

RECURSIVE TasksPollLoop(_)
\* a loop that returns after the first retain_mut
TasksPollRetainedBug(q) == q

\* the loop of Tasks::poll after retain_mut: new_tasks is moved to tasks
\* and the loop goes on, or poll returns
TasksPollRetained(q) ==
    IF q.new_tasks = <<>> THEN q
    ELSE TasksPollLoop([q EXCEPT !.tasks = @ \o q.new_tasks, !.new_tasks = <<>>])

\* the loop of Tasks::poll
TasksPollLoop(q) == TasksPollRetained(RetainMut(q, q.tasks, <<>>))

\* Tasks::poll
TasksPoll(q) == TasksPollLoop([q EXCEPT !.waker = TRUE, !.polls = @ + 1])

\* run_async outside of a poll
TqEnqueue(kind, ready) ==
    /\ tq.ids < MaxTasks
    /\ tq' = TasksEnqueue(tq, kind, ready, FALSE, 0)

\* the future of a task becomes able to complete
TqReady(i) ==
    /\ ~tq.tasks[i].ready
    /\ tq' = [tq EXCEPT !.tasks[i].ready = TRUE]

\* Client::poll polls its tasks
TqPoll ==
    /\ tq.polls < MaxTaskPolls
    /\ tq' = TasksPoll(tq)

InitTasks ==
    /\ tq = TasksNew
    /\ IdleCipherVars /\ IdleConnVars /\ IdleSessVars /\ IdleClientVars /\ IdleCodecVars
    /\ IdleSrvVars /\ IdleLiveVars

NextTasks ==
    \/ \E kind \in CallbackKinds, ready \in BOOLEAN :
           TqEnqueue(kind, ready) /\ UNCHANGED <<cipherVars, connVars, sessVars, clientVars, codecVars, srvVars, liveVars>>
    \/ \E i \in 1..Len(tq.tasks) :
           TqReady(i) /\ UNCHANGED <<cipherVars, connVars, sessVars, clientVars, codecVars, srvVars, liveVars>>
    \/ TqPoll /\ UNCHANGED <<cipherVars, connVars, sessVars, clientVars, codecVars, srvVars, liveVars>>

SpecTasks == InitTasks /\ [][NextTasks]_vars

-----------------------------------------------------------------------------
(* One client connection after the handshake, the task that polls it and   *)
(* the readiness of its socket. The executor polls the task when it was    *)
(* woken: by send_packet through send_waker, by the socket when a          *)
(* poll_send that returned pending can go on, or by itself when it goes on *)
(* after a packet. No error occurs.                                        *)

\* the bytes a socket takes when it becomes writable
RoomSizes == {5, RecvReserve}

InitLiveVars ==
    \E key \in ConnKeys :
        /\ hs_key = key
        /\ peer_script \in SeqsUpTo({PktMeasurePing}, 1)
        /\ conn = ConnectWithSocket(PeerStream(FALSE, key, peer_script), key)
        /\ stage = "live"
        /\ last = Pending
        /\ live \in { [LiveNew EXCEPT !.woken = TRUE, !.room = room] :
                          room \in {0} \cup RoomSizes }

\* the task after its poll of the connection returned r: it sleeps unless
\* it got a packet; the socket keeps its waker if bytes are left to write
LivePolled(r) ==
    /\ conn' = r.c
    /\ last' = r.res
    /\ live' = [live EXCEPT !.woken = (r.res.kind = "Item"),
                            !.wr_wait = (r.c.send_buffer # <<>>),
                            !.room = @ - (Len(r.c.socket.tx) - Len(conn.socket.tx))]
    /\ UNCHANGED <<stage, hs_key, peer_script>>

\* the executor polls the woken task: poll_next with a socket that accepts
\* live.room bytes and has n bytes to give
LivePoll(n) ==
    /\ stage = "live"
    /\ live.woken
    /\ LivePolled(PollNext(conn, live.room, FALSE, n, "pending"))

\* send_packet outside of a poll: waker.wake() if send_waker holds one
LiveSend(p) ==
    /\ stage = "live"
    /\ Len(conn.h_sent) < MaxSends + 1
    /\ conn' = SendPacket(conn, p)
    /\ live' = [live EXCEPT !.woken = @ \/ conn.send_waker,
                            !.idle_send = @ \/ (~live.woken /\ conn.send_waker)]
    /\ UNCHANGED <<stage, last, hs_key, peer_script>>

\* the socket becomes writable again and wakes the task that waits for it
LiveWritable(room) ==
    /\ stage = "live"
    /\ live.room = 0
    /\ live' = [live EXCEPT !.room = room, !.woken = @ \/ live.wr_wait,
                            !.wr_wait = FALSE]
    /\ UNCHANGED connVars

InitLive ==
    InitLiveVars /\ IdleCipherVars /\ IdleSessVars /\ IdleClientVars /\ IdleCodecVars
        /\ IdleSrvVars /\ IdleTaskVars

LivePollAny ==
    \E n \in ReadSizes(conn) : LivePoll(n) /\ UNCHANGED <<cipherVars, sessVars, clientVars, codecVars, srvVars, taskVars>>

LiveWritableAny ==
    \E room \in RoomSizes : LiveWritable(room) /\ UNCHANGED <<cipherVars, sessVars, clientVars, codecVars, srvVars, taskVars>>

NextLive ==
    \/ LivePollAny
    \/ \E p \in UserPackets(FALSE) : LiveSend(p) /\ UNCHANGED <<cipherVars, sessVars, clientVars, codecVars, srvVars, taskVars>>
    \/ LiveWritableAny

\* a woken task is polled, and a full socket becomes writable again
SpecLive ==
    InitLive /\ [][NextLive]_vars /\ WF_vars(LivePollAny) /\ WF_vars(LiveWritableAny)

-----------------------------------------------------------------------------
(* Observations of a connection *)

\* every byte send_packet ever appended, in socket order
OutStream(c) == c.socket.tx \o c.send_buffer

\* the plaintext payload of the peer's frame number fr
PeerPayload(c, fr) ==
    IF c.is_server THEN PacketEncode(peer_script[fr])
    ELSE IF fr = 1 THEN PacketEncode(PktInitializeEncryption(hs_key))
    ELSE PacketEncode(peer_script[fr - 1])

RECURSIVE SentBefore(_, _)
\* the bytes the first i send_packet calls appended
SentBefore(h, i) == IF i = 0 THEN 0 ELSE SentBefore(h, i - 1) + h[i].n

(* C1: the handshake frame travels with its payload in the clear; of every *)
(* frame sent after it each payload byte has passed the encrypt lane       *)
(* exactly once and no header byte has; of every frame received after it   *)
(* each payload byte has passed the decrypt lane exactly once (and the     *)
(* decoder saw the peer's plaintext), however the frames were split over   *)
(* reads; bytes waiting in the read buffer are not decrypted yet.          *)
C1_CipherOncePerPayloadByte ==
    /\ \A i \in 1..Len(OutStream(conn)) :
          LET b == OutStream(conn)[i]
          IN  /\ b.dec = 0
              /\ b.enc = IF b.k >= 8 /\ ~(conn.is_server /\ b.fr = 1) THEN 1 ELSE 0
    /\ \A j \in 1..Len(conn.h_parsed) :
          LET f == conn.h_parsed[j]
          IN  /\ \A i \in 1..Len(f.payload) :
                    f.payload[i].dec = IF ~conn.is_server /\ f.fr = 1 THEN 0 ELSE 1
              /\ Vals(f.payload) = PeerPayload(conn, f.fr)
    /\ \A i \in 1..Len(conn.recv_buffer) :
          LET b == conn.recv_buffer[i]
          IN  /\ b.dec <= 1
              /\ b.dec = 1 => conn.disconnected /\ b.k >= 8

\* a client that decoded the handshake and a ciphered frame with a payload,
\* holds the first bytes of a further frame, and has written a ciphered
\* payload byte to the socket
C1_Witness ==
    /\ ~conn.is_server
    /\ Len(conn.h_parsed) = 2
    /\ Len(conn.h_parsed[2].payload) > 0
    /\ Len(conn.recv_buffer) \in 1..7
    /\ \E i \in 1..Len(conn.socket.tx) : conn.socket.tx[i].k >= 8

\* the packet the peer sent as its frame number fr
PeerPacket(c, fr) ==
    IF c.is_server THEN peer_script[fr]
    ELSE IF fr = 1 THEN PktInitializeEncryption(hs_key)
    ELSE peer_script[fr - 1]

\* the frames the peer sends in all
PeerFrameCount(c) == Len(peer_script) + (IF c.is_server THEN 0 ELSE 1)

RECURSIVE ParsedBytes(_, _)
\* the bytes of the first i frames the framer has yielded
ParsedBytes(h, i) == IF i = 0 THEN 0 ELSE ParsedBytes(h, i - 1) + h[i].length

(* C36: what the framer yields depends on the inbound bytes only, not on   *)
(* how they are split over the reads: the j-th packet yielded is the       *)
(* decoding of the plaintext of the j-th frame the peer sent; the bytes    *)
(* not yet consumed are, untouched and in order, the rest of the peer's    *)
(* stream after the frames yielded (none lost, duplicated or decrypted     *)
(* early); and once the socket has given all bytes and a poll has returned *)
(* pending, every frame of the peer has been yielded.                      *)
C36_SplitIndependent ==
    /\ Len(conn.h_parsed) <= PeerFrameCount(conn)
    /\ \A j \in 1..Len(conn.h_parsed) :
          LET f == conn.h_parsed[j]
              d == RegistryDecode(conn.is_server, conn.decode_as_unknown,
                                  PeerPacket(conn, j).id, PeerPayload(conn, j))
          IN  /\ d.ok /\ f.pkt = d.pkt
              /\ f.length = HeaderLen + Len(PeerPayload(conn, j))
    /\ ~conn.disconnected =>
          conn.recv_buffer \o conn.socket.rx
              = From(PeerStream(conn.is_server, hs_key, peer_script),
                     ParsedBytes(conn.h_parsed, Len(conn.h_parsed)))
    /\ (~conn.disconnected /\ stage = "open" /\ last.kind = "Pending"
            /\ conn.socket.rx = <<>>) =>
          /\ conn.recv_buffer = <<>>
          /\ Len(conn.h_parsed) = PeerFrameCount(conn)

\* a client has yielded the handshake and a frame with a payload, and a
\* read has given it the first bytes of the third frame, the rest of which
\* is still to come
C36_Witness ==
    /\ ~conn.is_server /\ ~conn.disconnected
    /\ Len(conn.h_parsed) = 2
    /\ conn.h_parsed[2].length > HeaderLen
    /\ Len(conn.recv_buffer) \in 1..7
    /\ conn.recv_buffer[1].fr = 3
    /\ conn.socket.rx # <<>>
    /\ last.kind = "Pending"

(* C40: whenever the framer calls poll_recv, the slice it hands over,      *)
(* recv_buffer[recv_buffer_index..], is not empty, also while it waits for *)
(* the rest of a frame that is longer than the buffer was; so a read of 0  *)
(* bytes is the end of the stream and never a full buffer. Between polls   *)
(* the buffer has room as well, from the first poll on.                    *)
C40_RecvSliceNonEmpty ==
    /\ ~conn.h_empty_recv
    /\ conn.recv_len > 0 => Len(conn.recv_buffer) < conn.recv_len
    /\ Len(conn.recv_buffer) <= conn.recv_len

\* the framer has the header of a frame of 64 MiB and two bytes more, has
\* grown the buffer to the length of the frame, and a poll_recv after that
\* returned pending
C40_Witness ==
    /\ conn.recv_len = PacketCap
    /\ Len(conn.recv_buffer) = 10
    /\ BE32(Vals(SubSeq(conn.recv_buffer, 1, 4))) = PacketCap
    /\ last.kind = "Pending"
    /\ ~conn.disconnected

(* C37: every frame send_packet accepted is eventually written to the      *)
(* socket completely, if the task is polled whenever it was woken, the     *)
(* socket becomes writable again and no error occurs; a send_packet        *)
(* outside of a poll wakes the task that last polled the connection, so    *)
(* that bytes are never left in the write buffer with the task asleep and  *)
(* nobody to wake it.                                                      *)
C37_SendsGetWritten ==
    /\ \A i \in 1..(MaxSends + 1) :
          (Len(conn.h_sent) >= i)
              ~> (Len(conn.h_sent) >= i
                    /\ Len(conn.socket.tx) >= SentBefore(conn.h_sent, i))
    /\ [](conn.send_buffer # <<>> => live.woken \/ live.wr_wait)

\* the user sent a packet while the task was asleep, and all frames have
\* been written
C37_Witness ==
    /\ live.idle_send
    /\ Len(conn.h_sent) = MaxSends + 1
    /\ conn.send_buffer = <<>>
    /\ Len(conn.socket.tx) = SentBefore(conn.h_sent, Len(conn.h_sent))
    /\ ~live.woken

(* C38: the future disconnect(flush = true) returns does not complete      *)
(* before the connection state of the client is Closed, so that whoever    *)
(* awaits it (Server::shutdown does, for every client) is not done while   *)
(* the client has bytes that were not written yet.                         *)
C38_FlushFutureWaitsForClose ==
    /\ client.done_in \subseteq {"Closed"}
    /\ ~client.done_unflushed

\* the ids of the tasks in a queue
TaskIds(queue) == { queue[i].id : i \in 1..Len(queue) }

(* C39: of every task enqueued on Tasks the callback is called once, in    *)
(* the poll in which its future completes; the task is then removed and    *)
(* its future is not polled again; until then it stays in the queue, once. *)
(* A task that a callback enqueues while Tasks::poll runs is not lost: it  *)
(* is polled before that Tasks::poll returns, and nothing stays in         *)
(* new_tasks.                                                              *)
C39_TasksRunOnce ==
    /\ tq.new_tasks = <<>>
    /\ Len(tq.tasks) = Cardinality(TaskIds(tq.tasks))
    /\ \A id \in 1..tq.ids :
          LET l == tq.log[id]
          IN  /\ l.calls = (IF l.ready_at > 0 THEN 1 ELSE 0)
              /\ l.cb_at = l.ready_at
              /\ l.late = 0
              /\ l.ready_at > 0 <=> id \notin TaskIds(tq.tasks)
              /\ l.enq_at > 0 => l.first_poll = l.enq_at

\* the callback of the first task enqueued the second during the first
\* poll, which polled it before it returned; its future completed in the
\* second poll and its callback ran then
C39_Witness ==
    /\ tq.ids >= 2
    /\ tq.log[1].cb_at = 1
    /\ tq.log[2].enq_at = 1 /\ tq.log[2].first_poll = 1
    /\ tq.log[2].ready_at = 2 /\ tq.log[2].calls = 1
    /\ tq.tasks = <<>>

(* C3: for every packet send_packet accepted, the big-endian length at     *)
(* offset 0 of its frame equals the number of bytes appended to the write  *)
(* buffer for it, which is 8 plus the encoded payload, so at least 8.      *)
C3_LengthFieldIsFrameLength ==
    /\ Len(OutStream(conn)) = SentBefore(conn.h_sent, Len(conn.h_sent))
    /\ \A i \in 1..Len(conn.h_sent) :
          LET start == SentBefore(conn.h_sent, i - 1)
          IN  /\ BE32(Vals(SubSeq(OutStream(conn), start + 1, start + 4))) = conn.h_sent[i].n
              /\ conn.h_sent[i].n = 8 + Len(PacketEncode(conn.h_sent[i].pkt))
              /\ conn.h_sent[i].n >= 8

\* a server that sent the handshake and a frame with a payload, the first
\* and part of the second written to the socket already
C3_Witness ==
    /\ conn.is_server
    /\ Len(conn.h_sent) = 2
    /\ conn.h_sent[2].n = 9
    /\ Len(conn.socket.tx) > 16
    /\ conn.send_buffer # <<>>

(* C4: the framer removes exactly the declared frame length per decoded    *)
(* frame, also when the decoder read less than the payload: every frame is *)
(* parsed from its first byte, the decoder is handed bytes of that frame   *)
(* only, and what stays in the read buffer begins with the next frame.     *)
C4_FramerAdvancesByDeclaredLength ==
    /\ \A j \in 1..Len(conn.h_parsed) :
          LET f == conn.h_parsed[j]
          IN  /\ f.fr = j
              /\ f.first = 0
              /\ f.length = 8 + Len(f.payload)
              /\ f.used <= Len(f.payload)
              /\ \A i \in 1..Len(f.payload) :
                    f.payload[i].fr = j /\ f.payload[i].k = 8 + i - 1
    /\ (~conn.disconnected /\ conn.recv_buffer # <<>>) =>
          /\ conn.recv_buffer[1].k = 0
          /\ conn.recv_buffer[1].fr = Len(conn.h_parsed) + 1

\* a frame whose decoder left payload bytes unread was decoded, and the
\* frame after it too
C4_Witness ==
    \E j \in 1..Len(conn.h_parsed) :
        /\ conn.h_parsed[j].used < Len(conn.h_parsed[j].payload)
        /\ Len(conn.h_parsed) > j

\* the errors a connection ends with: socket read and write errors, a read
\* of 0 bytes, framing errors and decoding errors
ClosingErrors ==
    {"ReadError", "WriteError", "Disconnected", "PacketTooSmall", "PacketTooLarge",
     "PacketUnknownId", "IOError", "CodecUtf8DecodeError"}

\* a step of a disconnected connection: it stays disconnected, nothing is
\* read from or written to the socket, no further error is yielded, and
\* what a poll yields is None
DisconnectedStep ==
    conn.disconnected =>
        /\ conn'.disconnected
        /\ conn'.socket = conn.socket
        /\ conn'.recv_buffer = conn.recv_buffer
        /\ conn'.h_errs = conn.h_errs
        /\ last' # last => last'.kind = "None"

(* C14: the connection is disconnected exactly when poll_next has yielded  *)
(* an error, which it does once: a socket read or write error, a read of 0 *)
(* bytes, a framing or a decoding error; the poll that yields the error    *)
(* leaves the connection disconnected, and every later poll yields None    *)
(* and moves no byte from or to the socket.                                *)
C14_ErrorOnceThenTerminal ==
    /\ [](/\ conn.disconnected <=> Len(conn.h_errs) = 1
          /\ Len(conn.h_errs) <= 1
          /\ \A i \in 1..Len(conn.h_errs) : conn.h_errs[i] \in ClosingErrors
          /\ last.kind = "Err" => conn.h_errs = <<last.err>>)
    /\ [][DisconnectedStep]_vars

\* a connection that ended on a framing error was polled again and yielded
\* None, with bytes still to read from the socket and bytes still to write
C14_Witness ==
    /\ conn.disconnected
    /\ conn.h_errs = <<"PacketTooSmall">>
    /\ last.kind = "None"
    /\ conn.socket.rx # <<>>
    /\ conn.send_buffer # <<>>

(* C15: a send_packet call made after the connection was disconnected     *)
(* appends nothing to the write buffer (and returns no error: send_packet  *)
(* of the model always returns Ok).                                        *)
C15_NoEnqueueAfterDisconnect ==
    \A i \in 1..Len(conn.h_sent) : ~conn.h_sent[i].dead

\* the length field of the frame at the head of the read buffer, of which
\* at least four bytes have arrived
HeadLength(c) == BE32(Vals(SubSeq(c.recv_buffer, 1, 4)))

\* the frame at the head of the read buffer was neither decrypted nor decoded
HeadUntouched(c) ==
    /\ \A i \in 1..Len(c.recv_buffer) :
           c.recv_buffer[i].fr = c.recv_buffer[1].fr => c.recv_buffer[i].dec = 0
    /\ \A i \in 1..Len(c.h_parsed) : c.h_parsed[i].fr # c.recv_buffer[1].fr

\* the last poll did not end with an earlier frame: it went on to the frame
\* at the head of the read buffer
HeadExamined == last.kind \notin {"Item", "Init"}

\* the connection ended on the error e, or on a socket write error that a
\* poll met before it reached the framer
EndedOn(c, e) == c.disconnected /\ c.h_errs \in { <<e>>, <<"WriteError">> }

\* a poll of a connection whose read buffer holds the header of a frame of
\* declared length 7 or less ends the connection
TooSmallStep ==
    (/\ ~conn.disconnected
     /\ Len(conn.recv_buffer) >= 8
     /\ HeadLength(conn) <= 7
     /\ conn'.h_sent = conn.h_sent
     /\ conn' # conn)
        => EndedOn(conn', "PacketTooSmall") /\ HeadUntouched(conn')

(* C17, as stated: once the connection has read all the peer sent and has  *)
(* gone on to a frame whose first four bytes encode a length of 7 or less, *)
(* it has yielded PacketTooSmall and is disconnected, unless the socket    *)
(* failed first.                                                           *)
C17_AsStated ==
    (/\ conn.socket.rx = <<>>
     /\ Len(conn.recv_buffer) >= 4
     /\ HeadLength(conn) <= 7
     /\ HeadExamined)
        => EndedOn(conn, "PacketTooSmall") \/ conn.h_errs = <<"ReadError">>

(* C17: once the eight header bytes of a frame have arrived and its first  *)
(* four bytes encode a length of 7 or less, the poll that goes on to this   *)
(* frame yields PacketTooSmall and leaves the connection disconnected,     *)
(* unless a socket write error ended it first; the frame is neither        *)
(* decrypted nor decoded.                                                  *)
C17_TooSmallOnceHeaderRead ==
    /\ []((Len(conn.recv_buffer) >= 8 /\ HeadLength(conn) <= 7)
              => /\ HeadUntouched(conn)
                 /\ HeadExamined => EndedOn(conn, "PacketTooSmall"))
    /\ [][TooSmallStep]_vars

\* a frame of declared length 7 arrived after a frame that was decoded, and
\* ended the connection
C17_Witness ==
    /\ Len(conn.recv_buffer) >= 8
    /\ HeadLength(conn) = 7
    /\ conn.h_errs = <<"PacketTooSmall">>
    /\ Len(conn.h_parsed) >= 2
    /\ last = ReadyErr("PacketTooSmall")

\* a poll of a connection whose read buffer holds the header of a frame of
\* a declared length above the cap ends the connection, and grows the read
\* buffer by no more than the space poll_incoming reserves for a read
TooLargeStep ==
    (/\ ~conn.disconnected
     /\ Len(conn.recv_buffer) >= 8
     /\ HeadLength(conn) > PacketCap
     /\ conn'.h_sent = conn.h_sent
     /\ conn' # conn)
        => /\ EndedOn(conn', "PacketTooLarge")
           /\ HeadUntouched(conn')
           /\ conn'.recv_len <= conn.recv_len + RecvReserve

(* C18, as stated: once the connection has read all the peer sent and has  *)
(* gone on to a frame whose first four bytes encode a length above the     *)
(* cap, it has yielded PacketTooLarge and is disconnected, unless the      *)
(* socket failed first.                                                    *)
C18_AsStated ==
    (/\ conn.socket.rx = <<>>
     /\ Len(conn.recv_buffer) >= 4
     /\ HeadLength(conn) > PacketCap
     /\ HeadExamined)
        => EndedOn(conn, "PacketTooLarge") \/ conn.h_errs = <<"ReadError">>

(* C18: once the eight header bytes of a frame have arrived and its first  *)
(* four bytes encode a length above the cap of 64 MiB, the poll that goes  *)
(* on to this frame yields PacketTooLarge and leaves the connection        *)
(* disconnected, unless a socket write error ended it first; the frame is  *)
(* neither decrypted nor decoded, and the read buffer never grows to the   *)
(* declared length.                                                        *)
C18_TooLargeOnceHeaderRead ==
    /\ []((Len(conn.recv_buffer) >= 4 /\ HeadLength(conn) > PacketCap)
              => /\ HeadUntouched(conn)
                 /\ conn.recv_len < HeadLength(conn)
                 /\ (Len(conn.recv_buffer) >= 8 /\ HeadExamined)
                        => EndedOn(conn, "PacketTooLarge"))
    /\ [][TooLargeStep]_vars

\* a frame of a declared length one above the cap arrived after a frame
\* that was decoded, and ended the connection with the read buffer at the
\* size the reads had given it
C18_Witness ==
    /\ Len(conn.recv_buffer) >= 8
    /\ HeadLength(conn) = PacketCap + 1
    /\ conn.h_errs = <<"PacketTooLarge">>
    /\ Len(conn.h_parsed) >= 2
    /\ last = ReadyErr("PacketTooLarge")
    /\ conn.recv_len <= 2 * RecvReserve

\* the packet the peer sent as frame fr (its frame 1 is the handshake)
PeerSent(fr) == peer_script[fr - 1]

\* the frame at the head of the read buffer has arrived whole
HeadComplete(c) == Len(c.recv_buffer) >= 8 /\ Len(c.recv_buffer) >= HeadLength(c)

(* C20: the frames are decoded in the order they arrived. A frame with an  *)
(* id the registry does not know is decoded only if unknown packets are    *)
(* allowed, and then as an UnknownPacket with the id and exactly the       *)
(* payload the peer sent, with the connection left open and the frames     *)
(* after it decoded as their own packets. If unknown packets are not       *)
(* allowed, the poll that goes on to such a frame yields PacketUnknownId    *)
(* with the id of the frame and leaves the connection disconnected.        *)
C20_UnknownIdHandling ==
    /\ \A i \in 1..Len(conn.h_parsed) :
           /\ conn.h_parsed[i].fr = i
           /\ (i >= 2 /\ PeerSent(i).id \in RegisteredIds(conn.is_server))
                  => /\ conn.h_parsed[i].pkt.id = PeerSent(i).id
                     /\ ~conn.h_parsed[i].pkt.unknown
           /\ (i >= 2 /\ PeerSent(i).id \notin RegisteredIds(conn.is_server))
                  => /\ conn.decode_as_unknown
                     /\ conn.h_parsed[i].pkt = PktUnknown(PeerSent(i).id, PeerSent(i).body)
                     /\ conn.h_parsed[i].used = Len(PeerSent(i).body)
                     /\ conn.h_parsed[i].length = HeaderLen + Len(PeerSent(i).body)
    /\ conn.decode_as_unknown => \A i \in 1..Len(conn.h_errs) : conn.h_errs[i] # "PacketUnknownId"
    /\ (last.kind = "Err" /\ last.err = "PacketUnknownId")
           => /\ ~conn.decode_as_unknown
              /\ conn.disconnected
              /\ conn.recv_buffer[1].fr = Len(conn.h_parsed) + 1
              /\ last.id = PeerSent(conn.recv_buffer[1].fr).id
              /\ last.id \notin RegisteredIds(conn.is_server)
    /\ (/\ ~conn.decode_as_unknown
        /\ HeadComplete(conn)
        /\ HeadExamined
        /\ conn.recv_buffer[1].fr - 1 \in 1..Len(peer_script)
        /\ PeerSent(conn.recv_buffer[1].fr).id \notin RegisteredIds(conn.is_server))
           => EndedOn(conn, "PacketUnknownId")

\* with unknown packets allowed, a frame of an unknown id with a payload was
\* decoded and the ping after it as well, and the connection is open
C20_Witness ==
    /\ conn.decode_as_unknown
    /\ ~conn.disconnected
    /\ Len(conn.h_parsed) = 3
    /\ conn.h_parsed[2].pkt = PktUnknown(9, <<7>>)
    /\ conn.h_parsed[3].pkt = PktMeasurePing
    /\ last = ReadyItem(PktMeasurePing)

\* the packet the connection decoded last
LastParsed(c) == c.h_parsed[Len(c.h_parsed)].pkt

\* p is the message InitializeEncryption
IsInitializeEncryption(p) == p.id = IdInitializeEncryption /\ ~p.unknown

\* init_encryption, called on a connection that has ended, returns
\* ConnectionAborted and leaves the connection as it is
AbortedStep ==
    (stage = "failed" /\ conn.disconnected /\ last' # last)
        => /\ last' = [kind |-> "Init", res |-> "ConnectionAborted"]
           /\ conn' = conn

(* C21: in the client role init_encryption returns Ok only if the message  *)
(* it read is InitializeEncryption, and then the cipher built from that    *)
(* message's seed is installed. Any other message gives UnexpectedPacket   *)
(* and leaves the connection open; an error of the connection is returned  *)
(* as it is; a connection that has ended gives ConnectionAborted; and      *)
(* until init_encryption returns Ok the connection keeps the no-op cipher. *)
C21_ClientHandshake ==
    /\ [](~conn.is_server =>
            /\ stage \in {"handshake", "connect", "failed", "refused"}
                   => conn.crypt_context = PlainCipherNew("Client")
            /\ last.kind = "Init"
                   => last.res \in {"Ok", "UnexpectedPacket", "ConnectionAborted"}
                                      \cup ClosingErrors
            /\ (last.kind = "Init" /\ last.res = "Ok")
                   => /\ stage = "open"
                      /\ IsInitializeEncryption(LastParsed(conn))
                      /\ conn.crypt_context.kind = "xor"
                      /\ conn.crypt_context.x.decrypt_key
                             = XOrCipherNew("Client", LastParsed(conn).body).decrypt_key
                      /\ conn.h_sent = <<>>
                             => conn.crypt_context
                                    = XOrContext("Client", LastParsed(conn).body)
            /\ (last.kind = "Init" /\ last.res = "UnexpectedPacket")
                   => /\ ~IsInitializeEncryption(LastParsed(conn))
                      /\ ~conn.disconnected
            /\ (last.kind = "Init" /\ last.res \in ClosingErrors)
                   => /\ conn.disconnected
                      /\ conn.h_errs = <<last.res>>
            /\ (last.kind = "Init" /\ last.res = "ConnectionAborted")
                   => conn.disconnected)
    /\ [][AbortedStep]_vars

\* the server's first message was a ping: init_encryption returned
\* UnexpectedPacket and the connection, still open, keeps the no-op cipher
C21_Witness ==
    /\ ~conn.is_server
    /\ stage = "failed"
    /\ last = [kind |-> "Init", res |-> "UnexpectedPacket"]
    /\ LastParsed(conn) = PktMeasurePing
    /\ conn.crypt_context = PlainCipherNew("Client")
    /\ ~conn.disconnected

\* the payload of the first frame the connection sent, as it is on the wire
FirstPayloadSent(c) == SubSeq(OutStream(c), HeaderLen + 1, c.h_sent[1].n)

(* C22: the first frame a server sends is InitializeEncryption with the    *)
(* 4-byte seed, in the clear. A client that connect_with_socket drives     *)
(* sends nothing before it has decoded that message as its first one; its  *)
(* first frame is EncryptionInitialized, and the payload of that frame is  *)
(* what the client's encrypt lane, built from the seed and not used        *)
(* before, makes of the encoded message, which the server's decrypt lane   *)
(* turns back into the encoded message. Client::new accepts the peer only  *)
(* if the one message it read is EncryptionInitialized, decoded from the   *)
(* payload the peer encoded, and rejects a peer whose first message is     *)
(* another one.                                                            *)
C22_HandshakeOrder ==
    /\ (conn.is_server /\ conn.h_sent # <<>>)
           => /\ conn.h_sent[1].pkt = PktInitializeEncryption(hs_key)
              /\ Len(hs_key) = 4
              /\ Vals(SubSeq(OutStream(conn), 1, 16))
                     = U32BE(16) \o U32BE(IdInitializeEncryption) \o U32BE(4) \o hs_key
              /\ \A i \in 1..16 : OutStream(conn)[i].enc = 0
    /\ (~conn.is_server /\ conn.h_sent # <<>>)
           => /\ Len(conn.h_parsed) >= 1
              /\ IsInitializeEncryption(conn.h_parsed[1].pkt)
              /\ conn.h_sent[1].pkt = PktEncryptionInitialized(Lang)
              /\ FirstPayloadSent(conn)
                     = CipherEncrypt(XOrContext("Client", conn.h_parsed[1].pkt.body),
                                     Tag(PacketEncode(PktEncryptionInitialized(Lang)), 1, 8)).buf
              /\ Vals(CipherDecrypt(XOrContext("Server", conn.h_parsed[1].pkt.body),
                                    FirstPayloadSent(conn)).buf)
                     = PacketEncode(PktEncryptionInitialized(Lang))
    /\ (conn.is_server /\ stage = "client")
           => /\ Len(conn.h_parsed) = 1
              /\ conn.h_parsed[1].pkt = peer_script[1]
              /\ conn.h_parsed[1].pkt.id = IdEncryptionInitialized
              /\ ~conn.h_parsed[1].pkt.unknown
              /\ Vals(conn.h_parsed[1].payload) = PacketEncode(peer_script[1])
    /\ (conn.is_server /\ conn.h_parsed # <<>>
            /\ conn.h_parsed[1].pkt.id # IdEncryptionInitialized)
           => stage = "rejected"

\* Client::new accepted a client that connect_with_socket drove: the server
\* has sent the handshake frame, and decoded the client's answer
C22_Witness ==
    /\ conn.is_server
    /\ stage = "client"
    /\ peer_script = <<PktEncryptionInitialized(Lang)>>
    /\ conn.h_parsed[1].pkt = PktEncryptionInitialized(Lang)
    /\ Len(conn.socket.tx) = HandshakeFrameLen(hs_key)

(* C19: no frame longer than the cap is appended to the write buffer: a    *)
(* send_packet whose encoded frame exceeds the cap fails and appends       *)
(* nothing.                                                                *)
C19_NoFrameAboveCap ==
    \A i \in 1..Len(conn.h_sent) : conn.h_sent[i].n <= PacketCap

-----------------------------------------------------------------------------
(* Observations of a codec *)

\* a value was given and encode has returned
Written(type) ==
    codec.type = type /\ codec.given = "value" /\ codec.phase \in {"wire", "read", "failed"}

\* the bytes a peer wrote have been read
ReadBytes(type) == codec.type = type /\ codec.given = "bytes" /\ codec.phase = "read"

(* C23: every length from 0 to 4194303 is encoded, in 1 byte below 128, in *)
(* 2 bytes below 16384 and in 3 bytes otherwise, and decoding the bytes    *)
(* written gives the length again.                                         *)
C23_LengthRoundTrip ==
    (Written("Length") /\ codec.input <= 4194303)
        => /\ codec.phase # "failed"
           /\ Len(codec.wire) = (IF codec.input < 128 THEN 1
                                 ELSE IF codec.input < 16384 THEN 2 ELSE 3)
           /\ codec.phase = "read"
                 => /\ codec.dec.ok
                    /\ codec.dec.val = codec.input
                    /\ codec.dec.used = Len(codec.wire)

\* the width the two high bits of a first byte stand for
MarkedWidth(b) == IF b < 128 THEN 1 ELSE IF b < 192 THEN 2 ELSE 3

\* the bytes of a field of that width, as a number without the marker bits
Unmarked(bytes) ==
    IF Len(bytes) = 1 THEN bytes[1]
    ELSE IF Len(bytes) = 2 THEN (bytes[1] % 64) * 256 + bytes[2]
    ELSE (bytes[1] % 64) * 65536 + bytes[2] * 256 + bytes[3]

(* C34: the Length decoder takes the width of the field from the two high  *)
(* bits of the first byte alone (0x one byte, 10 two, 11 three), reads     *)
(* exactly that many bytes and returns their value without the marker      *)
(* bits.                                                                   *)
C34_LengthDecode ==
    (ReadBytes("Length") /\ codec.wire # <<>>
            /\ Len(codec.wire) >= MarkedWidth(codec.wire[1]))
        => /\ codec.dec.ok
           /\ codec.dec.used = MarkedWidth(codec.wire[1])
           /\ codec.dec.val = Unmarked(SubSeq(codec.wire, 1, MarkedWidth(codec.wire[1])))

(* C24: encoding a length of 4194304 or more fails with                    *)
(* CodecVarIntTooLarge, and no byte is written.                            *)
C24_TooLargeFails ==
    (Written("Length") /\ codec.input >= 4194304)
        => /\ codec.phase = "failed"
           /\ codec.enc.err = "CodecVarIntTooLarge"
           /\ codec.wire = <<>>

C24_Witness ==
    Written("Length") /\ codec.input = 4194304 /\ codec.phase = "failed"

\* the value the bits of a UTF-8 sequence of 1 to 4 bytes stand for
NaiveChar(b) ==
    CASE Len(b) = 1 -> b[1]
      [] Len(b) = 2 -> (b[1] % 32) * 64 + (b[2] % 64)
      [] Len(b) = 3 -> (b[1] % 16) * 4096 + (b[2] % 64) * 64 + (b[3] % 64)
      [] OTHER -> (b[1] % 8) * 262144 + (b[2] % 64) * 4096 + (b[3] % 64) * 64 + (b[4] % 64)

\* a Unicode scalar value: a code point that is no surrogate
IsScalar(c) == c >= 0 /\ c <= 1114111 /\ ~(c >= 55296 /\ c <= 57343)

\* the bytes are the UTF-8 form of some string
RECURSIVE IsUtf8(_)
IsUtf8(bytes) ==
    \/ bytes = <<>>
    \/ \E w \in 1..Min(4, Len(bytes)) :
           /\ IsScalar(NaiveChar(SubSeq(bytes, 1, w)))
           /\ Utf8OfChar(NaiveChar(SubSeq(bytes, 1, w))) = SubSeq(bytes, 1, w)
           /\ IsUtf8(From(bytes, w))

(* C25: the empty string is written as the byte 0x01, and 0x01 is read as  *)
(* the empty string; another string is written as 0x00, its length in      *)
(* bytes as u32 big-endian and its UTF-8 bytes ("abc" as 00 00 00 00 03 61 *)
(* 62 63); reading what was written gives the string again; and reading    *)
(* 0x00, a length and that many bytes which are not UTF-8 fails with       *)
(* CodecUtf8DecodeError.                                                   *)
C25_StringCodec ==
    /\ Written("String")
          => /\ codec.phase # "failed"
             /\ codec.input = <<>> => codec.wire = <<1>>
             /\ codec.input # <<>>
                   => /\ codec.wire[1] = 0
                      /\ SubSeq(codec.wire, 2, 5) = U32BE(Len(codec.wire) - 5)
                      /\ IsUtf8(From(codec.wire, 5))
                      /\ FromUtf8(From(codec.wire, 5)).val = codec.input
             /\ codec.input = <<97, 98, 99>> => codec.wire = <<0, 0, 0, 0, 3, 97, 98, 99>>
             /\ codec.phase = "read"
                   => /\ codec.dec.ok
                      /\ codec.dec.val = codec.input
                      /\ codec.dec.used = Len(codec.wire)
    /\ (ReadBytes("String") /\ codec.wire = <<1>>)
          => codec.dec.ok /\ codec.dec.val = <<>>
    /\ (ReadBytes("String") /\ Len(codec.wire) >= 5 /\ codec.wire[1] = 0
           /\ BE32(From(codec.wire, 1)) = Len(codec.wire) - 5)
          => IF IsUtf8(From(codec.wire, 5))
             THEN codec.dec.ok /\ AsBytes(codec.dec.val) = From(codec.wire, 5)
             ELSE ~codec.dec.ok /\ codec.dec.err = "CodecUtf8DecodeError"

\* a string with a char of two bytes was written and read back
C25_Witness ==
    /\ Written("String")
    /\ codec.phase = "read"
    /\ codec.input = <<97, 233>>
    /\ codec.wire = <<0, 0, 0, 0, 3, 97, 195, 169>>

(* C26: a variant other than Unknown is written as its ordinal, an i32,    *)
(* and reading that gives the variant again; reading an ordinal that no    *)
(* variant has, -1 among them, fails with EnumInvalidOrdinal; writing      *)
(* Unknown fails with EnumUnknown and writes no byte.                      *)
C26_EnumCodec ==
    /\ (Written("Enum") /\ codec.input # "Unknown")
          => /\ codec.phase # "failed"
             /\ \E i \in DOMAIN CaptchaLocation :
                    CaptchaLocation[i] = codec.input /\ codec.wire = I32BE(i - 1)
             /\ codec.phase = "read" => codec.dec.ok /\ codec.dec.val = codec.input
    /\ (Written("Enum") /\ codec.input = "Unknown")
          => /\ codec.phase = "failed"
             /\ codec.enc.err = "EnumUnknown"
             /\ codec.wire = <<>>
    /\ (ReadBytes("Enum") /\ Len(codec.wire) = 4)
          => IF ReadI32(codec.wire) \in 0..(Len(CaptchaLocation) - 1)
             THEN codec.dec.ok /\ codec.dec.val = CaptchaLocation[ReadI32(codec.wire) + 1]
             ELSE ~codec.dec.ok /\ codec.dec.err = "EnumInvalidOrdinal"
    /\ (ReadBytes("Enum") /\ codec.wire = <<255, 255, 255, 255>>)
          => ~codec.dec.ok /\ codec.dec.err = "EnumInvalidOrdinal"

\* the ordinal -1 was read
C26_Witness ==
    /\ ReadBytes("Enum")
    /\ codec.wire = <<255, 255, 255, 255>>
    /\ codec.dec.err = "EnumInvalidOrdinal"

-----------------------------------------------------------------------------
(* Observations of the server *)

(* C27: at no time do two threads execute the poll of one client, and no   *)
(* thread of the server is inside a call on a client (send_packet,         *)
(* disconnect, register_component) while the client's task executes its    *)
(* poll.                                                                   *)
C27_OnePollAtATime ==
    \A id \in 0..MaxClients :
        /\ srv.cl[id].in_poll <= 1
        /\ srv.cl[id].in_poll + srv.cl[id].in_call <= 1
        /\ srv.cl[id].in_poll = 1 => srv.cl[id].task = "poll"

\* the poll of a client is in flight while Server::shutdown, which is to
\* disconnect this client next, waits for its Mutex
C27_Witness ==
    \E id \in 1..MaxClients :
        /\ srv.cl[id].in_poll = 1
        /\ srv.holder = "main"
        /\ id \in srv.todo
        /\ srv.at = -1

-----------------------------------------------------------------------------
(* Observations of a client of the server *)

(* C16: a client that disconnect(flush=true) moved from open to closing,   *)
(* and whose socket did not fail, is closed only once its write buffer is  *)
(* empty (the bytes queued before the call have been written), and its     *)
(* wait callbacks are completed at that close.                             *)
C16_ClosedOnceFlushed ==
    (/\ client.connection_state = "Closed"
     /\ client.closed_from = "Closing"
     /\ \A i \in 1..Len(conn.h_errs) : conn.h_errs[i] \notin ConnectionClosedErrors)
        => /\ client.unwritten = 0
           /\ client.completed >= 1

-----------------------------------------------------------------------------
(* Observations of a session *)

Range(q) == { q[i] : i \in 1..Len(q) }

\* where the frame of the fr-th send_packet call begins and ends in the
\* outbound stream, if frames are laid out in call order
FrameStart(c, fr) == SentBefore(c.h_sent, fr - 1)
FrameEnd(c, fr) == SentBefore(c.h_sent, fr)

(* C5: the outbound byte stream (what the socket accepted, then the write  *)
(* buffer) is the frames of the send_packet calls in call order, each      *)
(* whole and once, whatever part of the buffer the socket accepted per     *)
(* write; and of two handlers offered the same packet, the frame the       *)
(* earlier one sent lies before the frame the later one sent.              *)
C5_TransmittedInCallOrder ==
    /\ Len(OutStream(conn)) = FrameEnd(conn, Len(conn.h_sent))
    /\ \A fr \in 1..Len(conn.h_sent) :
          \A j \in 1..conn.h_sent[fr].n :
              /\ OutStream(conn)[FrameStart(conn, fr) + j].fr = fr
              /\ OutStream(conn)[FrameStart(conn, fr) + j].k = j - 1
    /\ \A d \in 1..Len(sess.dlog) :
          \A a, b \in 1..Len(sess.dlog[d].sends) :
              LET x == sess.dlog[d].sends[a]
                  y == sess.dlog[d].sends[b]
              IN  x.by < y.by =>
                    /\ conn.h_sent[x.fr].pkt = PktMeasurePong
                    /\ FrameEnd(conn, x.fr) <= FrameStart(conn, y.fr)

\* two handlers answered the same ping, and the socket has accepted the
\* stream up to the middle of a frame, so the write buffer was compacted
C5_Witness ==
    /\ \E d \in 1..Len(sess.dlog) :
          /\ Len(sess.dlog[d].sends) = 2
          /\ sess.dlog[d].sends[1].by # sess.dlog[d].sends[2].by
    /\ conn.send_buffer # <<>>
    /\ conn.send_buffer[1].k # 0
    /\ conn.send_buffer[1].fr > 1

(* C6: the packets are dispatched in the order their frames arrived: the   *)
(* d-th dispatch is of the d-th frame after the handshake and carries the  *)
(* d-th packet the peer sent; when it began no later frame had been parsed, *)
(* and every frame decoded has been dispatched before the session's poll   *)
(* returned.                                                               *)
C6_DispatchInArrivalOrder ==
    /\ Len(conn.h_parsed) = Len(sess.dlog) + 1
    /\ \A d \in 1..Len(sess.dlog) :
          /\ sess.dlog[d].fr = d + 1
          /\ sess.dlog[d].parsed = d + 1
          /\ conn.h_parsed[d + 1].fr = d + 1
          /\ conn.h_parsed[d + 1].pkt.id = peer_script[d].id

\* two frames that were in the read buffer together have been dispatched,
\* one per poll, each to two handlers
C6_Witness ==
    /\ Len(sess.dlog) = 2
    /\ Len(sess.dlog[1].invoked) = 2
    /\ Len(sess.dlog[2].invoked) = 2
    /\ conn.socket.rx = <<>>
    /\ conn.recv_buffer = <<>>

(* C7: a handler registered from inside handle_packet is not offered the   *)
(* packet of the dispatch that is running and was not part of it; at the   *)
(* next dispatch it is in the map and is offered the packet, unless its    *)
(* removal was requested meanwhile or an earlier handler's error ended     *)
(* that dispatch.                                                          *)
C7_RegisteredInDispatchSeesNext ==
    \A d \in 1..Len(sess.dlog) :
        \A id \in sess.dlog[d].reg :
            /\ id \notin Range(sess.dlog[d].invoked)
            /\ id \notin sess.dlog[d].start
            /\ (d < Len(sess.dlog) /\ id \notin sess.dlog[d + 1].gone) =>
                  /\ id \in sess.dlog[d + 1].start
                  /\ \/ id \in Range(sess.dlog[d + 1].invoked)
                     \/ sess.dlog[d + 1].err \in 1..(id - 1)

\* a Spawner registered a handler while a second handler was still to be
\* offered the packet; the next dispatch reached all three
C7_Witness ==
    /\ Len(sess.dlog) = 2
    /\ sess.dlog[1].reg = {3}
    /\ sess.dlog[1].invoked = <<1, 2>>
    /\ sess.dlog[2].invoked = <<1, 2, 3>>

(* C8: a handler whose removal is requested during a dispatch is offered   *)
(* no later packet, and the removal does not disturb the running dispatch: *)
(* it offers the packet to the handlers registered when it began, in       *)
(* ascending order of their ids, and only a handler's error ends it early. *)
C8_RemovedInDispatchNotInvokedLater ==
    \A d \in 1..Len(sess.dlog) :
        /\ Range(sess.dlog[d].invoked) =
              { id \in sess.dlog[d].start : sess.dlog[d].err = 0 \/ id <= sess.dlog[d].err }
        /\ \A i \in 1..(Len(sess.dlog[d].invoked) - 1) :
              sess.dlog[d].invoked[i] < sess.dlog[d].invoked[i + 1]
        /\ \A d2 \in (d + 1)..Len(sess.dlog) :
              \A id \in sess.dlog[d].unreg : id \notin Range(sess.dlog[d2].invoked)

\* a Remover removed the handler after it, which the running dispatch still
\* reached and the next dispatch did not
C8_Witness ==
    /\ Len(sess.dlog) = 2
    /\ sess.dlog[1].unreg = {2}
    /\ sess.dlog[1].invoked = <<1, 2>>
    /\ sess.dlog[2].invoked = <<1>>

(* C9: whenever handle or poll has returned, whatever its result, the      *)
(* queue of deferred mutations is empty and the handler map holds exactly  *)
(* the handlers that the mutations requested so far leave registered.      *)
C9_QueueAppliedAtEveryReturn ==
    \A i \in 1..Len(sess.ret) :
        /\ sess.ret[i].pending = 0
        /\ sess.ret[i].synced

(* C10: a TaskHandle whose task produced its result before the session was *)
(* disconnected resolves with that result, Ok(result).                     *)
C10_ProducedResultResolvesOk ==
    (sess.rx = "Ok" /\ sess.task \notin {"none", "pending", "dropped"}) => sess.task = "Ok"

\* the dispatch d offered its packet to the matcher of the await_match
\* future, and the matcher returned a value for it
MatcherMatched(d) ==
    /\ sess.handler_id \in Range(sess.dlog[d].invoked)
    /\ IsPing(peer_script[d])

(* C11: the future of await_match is resolved by the first packet its      *)
(* matcher returns a value for: the matcher is invoked for no packet       *)
(* dispatched after that one, and the future, once it has resolved after   *)
(* the match, has resolved with the value.                                 *)
C11_FirstMatchResolves ==
    sess.fut = "match" =>
        /\ \A d1, d2 \in 1..Len(sess.dlog) :
              (d1 < d2 /\ MatcherMatched(d1)) =>
                  sess.handler_id \notin Range(sess.dlog[d2].invoked)
        /\ (sess.task \notin {"pending", "dropped"}
               /\ \E d \in 1..Len(sess.dlog) : MatcherMatched(d)) => sess.task = "Ok"

\* the handlers in the map that were registered for a future
FutureHandlers(s) == { id \in DOMAIN s.handler : s.handler[id].kind \in SenderKinds }

(* C12: once the future of execute_task or of await_match was dropped      *)
(* unresolved and the session has run a progress cycle (its poll got to    *)
(* poll the handlers), the handler registered for the future is in the     *)
(* registry no more.                                                       *)
C12_DroppedFutureHandlerRemoved ==
    sess.task = "dropped, polled" => FutureHandlers(sess) = {}

(* C13: the executor of a TaskSimpleAction has run exactly once as soon as  *)
(* the task was polled, and it ran in the task's first poll; before that   *)
(* poll it has not run and the matcher is offered no packet, also when a   *)
(* packet is dispatched to the task first; the matcher submits at most one *)
(* result.                                                                 *)
C13_ExecutorOnceOnFirstPoll ==
    /\ sess.tlog.polls = 0 => sess.tlog.execs = 0
    /\ sess.tlog.polls >= 1 => (sess.tlog.execs = 1 /\ sess.tlog.exec_at = 1)
    /\ ~sess.tlog.early
    /\ sess.tlog.results <= 1

\* the task was polled twice, its executor sent the prelude in the first
\* poll, the matcher submitted one result for the first of two packets, and
\* the TaskHandle resolved with it
C13_Witness ==
    /\ sess.tlog.polls = 2
    /\ sess.tlog.execs = 1
    /\ sess.tlog.results = 1
    /\ Len(sess.dlog) = 2
    /\ sess.task = "Ok"
    /\ \E fr \in 1..Len(conn.h_sent) : conn.h_sent[fr].pkt = PktMeasurePong

\* what one step does to the history of the dispatches
DispatchedNow == Len(sess'.dlog) - Len(sess.dlog)

\* a step that dispatches dispatches one packet, after the registry's poll
\* of the same Session poll, wakes the waker, and the Session poll is pending
OneDispatchStep ==
    /\ DispatchedNow \in {0, 1}
    /\ DispatchedNow = 1
          => /\ sess'.woke
             /\ sess'.fut # "match" => last'.res = "Pending"
             /\ Len(sess'.ret) = 2
             /\ sess'.ret[1].op = "poll"
             /\ sess'.ret[2].op = "handle"

(* C28: one poll of the Session dispatches at most one packet. A poll that *)
(* dispatched a packet has polled the handlers before the dispatch, has    *)
(* woken its own waker and returns pending (also when more packets are     *)
(* buffered), so that the next packet is dispatched by a later poll, after *)
(* that poll's poll of the handlers.                                       *)
C28_OnePacketPerPoll == [][OneDispatchStep]_vars

\* a poll has dispatched the first of two packets that arrived together,
\* has woken the waker and is pending; the second packet waits in the buffer
C28_Witness ==
    /\ stage = "session"
    /\ Len(sess.dlog) = 1
    /\ sess.woke
    /\ last = [kind |-> "Session", res |-> "Pending"]
    /\ Len(peer_script) = 2
    /\ conn.socket.rx = <<>>
    /\ ~conn.disconnected

(* C29: a dispatch offers the packet to the handlers of the map in         *)
(* ascending order of their ids, to all of them if none fails; if the      *)
(* handle_packet of a handler fails, the handlers after it are not offered *)
(* the packet, and the session is disconnected and dispatches no further   *)
(* packet.                                                                 *)
C29_DispatchOrder ==
    \A d \in 1..Len(sess.dlog) :
        LET log == sess.dlog[d]
        IN  /\ \A i, j \in 1..Len(log.invoked) : i < j => log.invoked[i] < log.invoked[j]
            /\ Range(log.invoked) \subseteq log.start
            /\ log.err = 0 => Range(log.invoked) = log.start
            /\ log.err # 0
                  => /\ log.invoked[Len(log.invoked)] = log.err
                     /\ \A id \in log.start : id > log.err => id \notin Range(log.invoked)
                     /\ \A id \in log.start : id < log.err => id \in Range(log.invoked)
                     /\ sess.disconnected
                     /\ d = Len(sess.dlog)

\* the first of two handlers failed: the second was not offered the packet
C29_Witness ==
    /\ Len(sess.dlog) = 1
    /\ sess.dlog[1].start = {1, 2}
    /\ sess.dlog[1].invoked = <<1>>
    /\ sess.dlog[1].err = 1
    /\ sess.disconnected

(* C35: once the session is marked disconnected, by the error of a        *)
(* handler's poll, by the error of a handler's handle_packet or by an      *)
(* error of the connection, no handler is offered any further inbound      *)
(* packet.                                                                 *)
C35_NoDispatchAfterDisconnect ==
    \A d \in 1..Len(sess.dlog) : sess.dlog[d].disc => sess.dlog[d].invoked = <<>>

(* C30: of the handlers the registry's poll has polled, one whose poll     *)
(* returned ready-ok is no longer in the map and is not offered a packet   *)
(* afterwards; one whose poll returned pending is still in the map, unless *)
(* its removal was requested since; an error is the last result of the     *)
(* poll, and the caller has marked the session disconnected.               *)
C30_RegistryProgress ==
    /\ \A i \in 1..Len(sess.plog) :
          LET polled == sess.plog[i]
          IN  /\ polled.res = "Ok" => polled.id \notin DOMAIN sess.handler
              /\ polled.res = "Pending"
                    => polled.id \in DOMAIN sess.handler \/ polled.id \in sess.removed
              /\ polled.res = "Err" => i = Len(sess.plog) /\ sess.disconnected
    /\ \A d \in 1..Len(sess.dlog) :
          Range(sess.dlog[d].invoked) \cap sess.dlog[d].gone = {}

\* the ids of the Register updates that wait for the commit
DeferredIds(s) ==
    { s.pending_handler_updates[i].id :
          i \in { j \in 1..Len(s.pending_handler_updates) :
                      s.pending_handler_updates[j].op = "Register" } }

\* the ids that stand for a handler, in the map or deferred
HeldIds(s) == DOMAIN s.handler \cup DeferredIds(s)

\* the ids a step hands out are above every id handed out before, one per
\* call, and an id that stays in the map stays with its handler
FreshIdStep ==
    /\ sess'.handler_index >= sess.handler_index
    /\ \A id \in HeldIds(sess') \ HeldIds(sess) :
           id > sess.handler_index /\ id <= sess'.handler_index
    /\ Cardinality(HeldIds(sess') \ HeldIds(sess)) <= sess'.handler_index - sess.handler_index
    /\ \A id \in DOMAIN sess.handler \cap DOMAIN sess'.handler :
           sess'.handler[id].kind = sess.handler[id].kind

(* C31: register_handler hands out the ids 1, 2, 3, ... in the order of    *)
(* the calls, whether it inserts at once or defers the insertion: every    *)
(* id that comes to stand for a handler is above all ids handed out        *)
(* before, no deferred id is an id of the map, and an id never changes     *)
(* the handler it stands for, so that remove_handler(id) removes the       *)
(* handler registered under that id or none.                               *)
C31_FreshIds ==
    /\ [](/\ HeldIds(sess) \subseteq 1..sess.handler_index
          /\ DeferredIds(sess) \cap DOMAIN sess.handler = {})
    /\ [][FreshIdStep]_vars

\* a handler registered during a dispatch, after two registered at once,
\* got the id 3 and is in the map
C31_Witness ==
    /\ sess.handler_index = 3
    /\ 3 \in DOMAIN sess.handler
    /\ \E d \in 1..Len(sess.dlog) : sess.dlog[d].reg = {3}

RECURSIVE OnesAt(_, _)
\* how many bytes of key have bit i set
OnesAt(key, i) ==
    IF key = <<>> THEN 0 ELSE Bit(Head(key), i) + OnesAt(Tail(key), i)

\* the XOR of all bytes of key, bit by bit
SeedOf(key) ==
      (OnesAt(key, 0) % 2)       + (OnesAt(key, 1) % 2) * 2
    + (OnesAt(key, 2) % 2) * 4   + (OnesAt(key, 3) % 2) * 8
    + (OnesAt(key, 4) % 2) * 16  + (OnesAt(key, 5) % 2) * 32
    + (OnesAt(key, 6) % 2) * 64  + (OnesAt(key, 7) % 2) * 128

\* k_a and k_b of a seed byte, lane i of the code at index i + 1
LaneA(seed) == [i \in 1..8 |-> Xor(seed, 8 * (i - 1))]
LaneB(seed) == [i \in 1..8 |-> Xor(LaneA(seed)[i], 87)]

\* the lane of cipher c before its first encrypt, and before its first decrypt
FreshEncrypt(c) ==
    /\ c.encrypt_key_offset = 0
    /\ c.encrypt_key = IF c.mode = "Server" THEN LaneA(SeedOf(ct_seed))
                                            ELSE LaneB(SeedOf(ct_seed))
FreshDecrypt(c) ==
    /\ c.decrypt_key_offset = 0
    /\ c.decrypt_key = IF c.mode = "Server" THEN LaneB(SeedOf(ct_seed))
                                            ELSE LaneA(SeedOf(ct_seed))

(* C32: XOrCipher::new takes the XOR of the seed bytes for the seed,       *)
(* k_a[i] = seed XOR (i << 3) and k_b[i] = k_a[i] XOR 0x57; a server       *)
(* encrypts with k_a and decrypts with k_b and a client the reverse, all   *)
(* offsets 0: until its first call a lane is in that state, and the        *)
(* encrypt lane of one side starts as the decrypt lane of the other.       *)
C32_KeySchedule ==
    /\ ct_sender.mode # ct_receiver.mode
    /\ ct_sent = 0 => FreshEncrypt(ct_sender)
    /\ ct_out = <<>> => FreshDecrypt(ct_receiver)
    /\ ct_cross.sender = <<>> => FreshDecrypt(ct_sender)
    /\ ct_cross.receiver = <<>> => FreshEncrypt(ct_receiver)
    /\ (ct_sent = 0 /\ ct_out = <<>>) =>
           /\ ct_sender.encrypt_key = ct_receiver.decrypt_key
           /\ ct_sender.encrypt_key_offset = ct_receiver.decrypt_key_offset
    /\ ct_cross.calls = 0 =>
           /\ ct_sender.decrypt_key = ct_receiver.encrypt_key
           /\ ct_sender.decrypt_key_offset = ct_receiver.encrypt_key_offset

\* a client and a server built from a seed whose bytes XOR to 177, before
\* any call
C32_Witness ==
    /\ ct_seed = <<255, 87, 16, 9>>
    /\ ct_sender.mode = "Client"
    /\ ct_sent = 0 /\ ct_out = <<>> /\ ct_cross.calls = 0
    /\ ct_sender.encrypt_key[2] = 238
    /\ ct_receiver.encrypt_key[2] = 185

\* the state of the two lanes of a cipher
EncryptLane(c) == <<c.encrypt_key, c.encrypt_key_offset>>
DecryptLane(c) == <<c.decrypt_key, c.decrypt_key_offset>>

\* no call changes both lanes of a cipher
OneLaneStep ==
    /\ EncryptLane(ct_sender') = EncryptLane(ct_sender)
           \/ DecryptLane(ct_sender') = DecryptLane(ct_sender)
    /\ EncryptLane(ct_receiver') = EncryptLane(ct_receiver)
           \/ DecryptLane(ct_receiver') = DecryptLane(ct_receiver)

(* C33: encrypt reads and writes the encrypt key and offset only, decrypt  *)
(* the decrypt key and offset only: with the calls of both kinds           *)
(* interleaved on one cipher, the output and the state of each lane are    *)
(* those of a cipher that got the calls of that lane alone, and all        *)
(* offsets stay in 0..7.                                                   *)
C33_LanesIndependent ==
    /\ [](LET se == XOrEncrypt(XOrCipherNew(ct_sender.mode, ct_seed),
                               SubSeq(ct_plain, 1, ct_sent))
              sd == XOrDecrypt(XOrCipherNew(ct_sender.mode, ct_seed), ct_cross.sender)
              rd == XOrDecrypt(XOrCipherNew(ct_receiver.mode, ct_seed),
                               SubSeq(ct_wire, 1, Len(ct_out)))
              re == XOrEncrypt(XOrCipherNew(ct_receiver.mode, ct_seed), ct_cross.receiver)
          IN  /\ ct_wire = se.buf
              /\ EncryptLane(ct_sender) = EncryptLane(se.c)
              /\ DecryptLane(ct_sender) = DecryptLane(sd.c)
              /\ ct_out = rd.buf
              /\ DecryptLane(ct_receiver) = DecryptLane(rd.c)
              /\ EncryptLane(ct_receiver) = EncryptLane(re.c)
              /\ \A c \in {ct_sender, ct_receiver} :
                     /\ c.encrypt_key_offset \in 0..7
                     /\ c.decrypt_key_offset \in 0..7)
    /\ [][OneLaneStep]_vars

\* the cipher that encrypted the whole plaintext has also decrypted two
\* bytes, both its lanes are off their first index, and the ciphertext has
\* been decrypted by the other side
C33_Witness ==
    /\ Len(ct_cross.sender) = 2 /\ ct_cross.receiver # <<>>
    /\ ct_sent = MaxLane /\ Len(ct_out) = MaxLane
    /\ ct_sender.encrypt_key_offset # 0 /\ ct_sender.decrypt_key_offset # 0
    /\ ct_sender.encrypt_key_offset # ct_sender.decrypt_key_offset
    /\ ct_receiver.decrypt_key_offset # 0

-----------------------------------------------------------------------------
(* C2: bytes encrypted by an XOrCipher in one role and decrypted by an     *)
(* XOrCipher of the same seed in the opposite role equal the original      *)
(* bytes, whatever the split into encrypt calls and into decrypt calls:    *)
(* what decrypt has returned is always the plaintext prefix of that length.*)
C2_RoundTrip ==
    /\ Len(ct_out) <= Len(ct_plain)
    /\ ct_out = SubSeq(ct_plain, 1, Len(ct_out))
    /\ Len(ct_wire) = ct_sent

\* a three-byte plaintext with a non-zero offset step, encrypted and decrypted
\* completely, the ciphertext differing from it
C2_Witness ==
    /\ Len(ct_plain) = MaxPlain
    /\ ct_plain[1] = 87
    /\ Len(ct_out) = MaxPlain
    /\ ct_wire # ct_plain
    /\ ct_receiver.decrypt_key_offset # 0

=============================================================================
